---- MODULE Spec2Model ----
(***************************************************************************)
(* Model of the safe-file-deletion server's core: the protection engine   *)
(* (scope and pattern matching with a decision cache), the deletion        *)
(* service (path validation, single and batch deletion) and the            *)
(* filesystem they act on.  Path strings are TLA+ strings handled          *)
(* character by character, as the JavaScript code handles them.            *)
(***************************************************************************)
EXTENDS Integers, Sequences, FiniteSets, TLC

(***************************************************************************)
(* JavaScript string primitives                                            *)
(***************************************************************************)
CharAt(s, i) == IF i >= 1 /\ i <= Len(s) THEN SubSeq(s, i, i) ELSE ""

StartsWith(s, prefix) ==
  Len(s) >= Len(prefix) /\ SubSeq(s, 1, Len(prefix)) = prefix

EndsWith(s, suffix) ==
  Len(s) >= Len(suffix) /\ SubSeq(s, Len(s) - Len(suffix) + 1, Len(s)) = suffix

\* String.prototype.includes
Includes(s, sub) ==
  \E i \in 1..(Len(s) - Len(sub) + 1) : SubSeq(s, i, i + Len(sub) - 1) = sub

\* Index of the first "/" of s at or after position i, or 0.
RECURSIVE IndexOfSlash(_, _)
IndexOfSlash(s, i) ==
  IF i > Len(s) THEN 0
  ELSE IF SubSeq(s, i, i) = "/" THEN i
  ELSE IndexOfSlash(s, i + 1)

\* s.split('/'): the empty string splits to <<"">>, "/a" to <<"", "a">>.
RECURSIVE Split(_)
Split(s) ==
  LET k == IndexOfSlash(s, 1)
  IN  IF k = 0 THEN <<s>>
      ELSE <<SubSeq(s, 1, k - 1)>> \o Split(SubSeq(s, k + 1, Len(s)))

\* segs.join('/')
RECURSIVE Join(_)
Join(segs) ==
  IF Len(segs) = 0 THEN ""
  ELSE IF Len(segs) = 1 THEN segs[1]
  ELSE segs[1] \o "/" \o Join(Tail(segs))

\* Array.prototype.filter with the predicate "is not the empty string".
RECURSIVE NonEmpty(_)
NonEmpty(segs) ==
  IF Len(segs) = 0 THEN <<>>
  ELSE IF segs[1] = "" THEN NonEmpty(Tail(segs))
  ELSE <<segs[1]>> \o NonEmpty(Tail(segs))

\* s.split(/\/+/): runs of slashes separate, so "/a//b" gives <<"", "a", "b">>.
SlashSplit(s) ==
  LET raw == Split(s)
      n == Len(raw)
  IN  IF n = 1 THEN raw
      ELSE <<raw[1]>> \o NonEmpty(SubSeq(raw, 2, n - 1)) \o <<raw[n]>>

\* filePath.replace(/\/$/, ''): one trailing slash is removed.
StripTrailingSlash(s) ==
  IF EndsWith(s, "/") THEN SubSeq(s, 1, Len(s) - 1) ELSE s

(***************************************************************************)
(* node:path (POSIX)                                                       *)
(***************************************************************************)
IsAbsolute(p) == CharAt(p, 1) = "/"

\* Segments of a path with "" and "." dropped and ".." resolved; ".." at the
\* root of an absolute path stays at the root.
RECURSIVE NormalizeSegs(_, _)
NormalizeSegs(segs, acc) ==
  IF Len(segs) = 0 THEN acc
  ELSE LET s == segs[1]
           rest == Tail(segs)
       IN  IF s = "" \/ s = "." THEN NormalizeSegs(rest, acc)
           ELSE IF s = ".."
             THEN NormalizeSegs(rest,
                    IF Len(acc) = 0 THEN acc ELSE SubSeq(acc, 1, Len(acc) - 1))
           ELSE NormalizeSegs(rest, Append(acc, s))

\* path.resolve of an absolute path, as its list of segments.
ResolveSegs(p) == NormalizeSegs(Split(p), <<>>)

\* path.resolve of an absolute path.
PathResolve(p) == "/" \o Join(ResolveSegs(p))

\* path.basename: trailing slashes are ignored, then the last segment.
Basename(p) ==
  LET segs == NonEmpty(Split(p))
  IN  IF Len(segs) = 0 THEN "" ELSE segs[Len(segs)]

RECURSIVE CommonPrefixLen(_, _)
CommonPrefixLen(a, b) ==
  IF Len(a) = 0 \/ Len(b) = 0 \/ a[1] # b[1] THEN 0
  ELSE 1 + CommonPrefixLen(Tail(a), Tail(b))

\* path.relative(from, to) for absolute arguments.
PathRelative(from, to) ==
  LET f == ResolveSegs(from)
      t == ResolveSegs(to)
      c == CommonPrefixLen(f, t)
      ups == [i \in 1..(Len(f) - c) |-> ".."]
  IN  Join(ups \o SubSeq(t, c + 1, Len(t)))

\* path.join(dir, filename) for an absolute dir: normalize(dir + '/' + filename);
\* a trailing slash of the joined string is kept.
PathJoin(dir, filename) ==
  LET joined == dir \o "/" \o filename
      body == PathResolve(joined)
  IN  IF EndsWith(joined, "/") /\ body # "/" THEN body \o "/" ELSE body

(***************************************************************************)
(* minimatch (POSIX, default options except matchBase).  The model covers  *)
(* patterns made of literal characters, "*", "**" and "/", with the        *)
(* leading "#" (comment) and "!" (negation) forms; brace, bracket, "?"     *)
(* and extglob syntax never occur in the patterns used here.               *)
(***************************************************************************)
\* The regular expression of one pattern part run against one path part:
\* "*" stands for [^/]*? and every other character for itself.
RECURSIVE GlobRun(_, _)
GlobRun(f, p) ==
  IF p = "" THEN f = ""
  ELSE IF Head(p) = "*"
    THEN GlobRun(f, Tail(p)) \/ (f # "" /\ GlobRun(Tail(f), p))
  ELSE f # "" /\ Head(f) = Head(p) /\ GlobRun(Tail(f), Tail(p))

HasMagic(p) == Includes(p, "*")

OnlyStars(p) == p # "" /\ \A i \in 1..Len(p) : CharAt(p, i) = "*"

\* "." and ".." and names that start with a dot are never matched by a
\* wildcard (option dot is off).
DotSeg(s) == CharAt(s, 1) = "."

\* One parsed pattern part tested against one path part: a part without
\* magic is compared as a string; a part of stars only matches any non-empty
\* name not starting with a dot; a part starting with a star does not match a
\* leading dot; ".*" and "..*" forms do not match "." and "..".
MatchPart(f, p) ==
  IF ~HasMagic(p) THEN f = p
  ELSE IF OnlyStars(p) THEN f # "" /\ ~DotSeg(f)
  ELSE IF CharAt(p, 1) = "*" THEN ~DotSeg(f) /\ GlobRun(f, p)
  ELSE GlobRun(f, p)
       /\ ((StartsWith(p, ".*") \/ StartsWith(p, "..*")) => f \notin {".", ".."})

RECURSIVE MatchOne(_, _)
RECURSIVE GlobstarSwallow(_, _)
\* Minimatch.matchOne(file, pattern) with partial = false.
MatchOne(file, pattern) ==
  IF Len(file) = 0 \/ Len(pattern) = 0
    THEN IF Len(file) = 0 /\ Len(pattern) = 0 THEN TRUE
         ELSE IF Len(file) = 0 THEN FALSE
         ELSE Len(file) = 1 /\ file[1] = ""
  ELSE IF pattern[1] = "**"
    THEN IF Len(pattern) = 1
           THEN \A i \in 1..Len(file) : ~DotSeg(file[i])
           ELSE GlobstarSwallow(file, Tail(pattern))
  ELSE MatchPart(file[1], pattern[1]) /\ MatchOne(Tail(file), Tail(pattern))

\* The "**" loop of matchOne: try the rest of the pattern at every position,
\* stopping at a part that "**" may not swallow.
GlobstarSwallow(file, rest) ==
  IF Len(file) = 0 THEN FALSE
  ELSE MatchOne(file, rest)
       \/ (~DotSeg(file[1]) /\ GlobstarSwallow(Tail(file), rest))

\* Minimatch.levelOneOptimize: adjacent "**" collapse and "x/.." is dropped.
RECURSIVE LevelOneOptimize(_, _)
LevelOneOptimize(parts, set) ==
  IF Len(parts) = 0 THEN (IF Len(set) = 0 THEN <<"">> ELSE set)
  ELSE LET part == parts[1]
           prev == IF Len(set) = 0 THEN "" ELSE set[Len(set)]
       IN  IF part = "**" /\ prev = "**"
             THEN LevelOneOptimize(Tail(parts), set)
           ELSE IF part = ".." /\ prev # "" /\ prev \notin {"..", ".", "**"}
             THEN LevelOneOptimize(Tail(parts), SubSeq(set, 1, Len(set) - 1))
           ELSE LevelOneOptimize(Tail(parts), Append(set, part))

\* Number of leading "!" of a pattern (Minimatch.parseNegate).
RECURSIVE NegateOffset(_)
NegateOffset(pattern) ==
  IF CharAt(pattern, 1) = "!" THEN 1 + NegateOffset(Tail(pattern)) ELSE 0

\* The last non-empty part of a split path, "" when there is none.
LastNonEmpty(ff) ==
  LET ne == NonEmpty(ff) IN IF Len(ne) = 0 THEN "" ELSE ne[Len(ne)]

\* minimatch(p, pattern, { matchBase })
Minimatch(p, pattern, matchBase) ==
  IF CharAt(pattern, 1) = "#" THEN FALSE
  ELSE IF pattern = "" THEN p = ""
  ELSE LET k == NegateOffset(pattern)
           negate == (k % 2) = 1
           parts == LevelOneOptimize(SlashSplit(SubSeq(pattern, k + 1, Len(pattern))), <<>>)
           ff == SlashSplit(p)
           file == IF matchBase /\ Len(parts) = 1 THEN <<LastNonEmpty(ff)>> ELSE ff
       IN  MatchOne(file, parts) # negate

(***************************************************************************)
(* Protection engine: pure parts                                           *)
(***************************************************************************)
\* The value getMatchingAllowedDirectory returns for "no match".  Allowed
\* directories are absolute, so no directory equals it.
NULL == "null"

\* The predicate of both scope checks: dir equals the path or is a prefix of
\* it up to a "/".
DirMatches(dir, filePath) ==
  filePath = dir \/ StartsWith(filePath, dir \o "/")

\* A variant that forgets the "/" boundary.
IsWithinAllowedDirectoriesNoBoundary(dirs, filePath) ==
  \E i \in 1..Len(dirs) : StartsWith(filePath, dirs[i])

\* ProtectionEngineImpl.isWithinAllowedDirectories
IsWithinAllowedDirectories(dirs, filePath) ==
  \E i \in 1..Len(dirs) : DirMatches(dirs[i], filePath)

\* A variant that returns the first match in configuration order.
GetMatchingAllowedDirectoryFirst(dirs, filePath) ==
  LET idx == {i \in 1..Len(dirs) : DirMatches(dirs[i], filePath)}
  IN  IF idx = {} THEN NULL
      ELSE dirs[CHOOSE i \in idx : \A j \in idx : i <= j]

\* ProtectionEngineImpl.getMatchingAllowedDirectory: filter, then a stable
\* sort by decreasing length, then the first element.
GetMatchingAllowedDirectory(dirs, filePath) ==
  LET idx == {i \in 1..Len(dirs) : DirMatches(dirs[i], filePath)}
  IN  IF idx = {} THEN NULL
      ELSE dirs[CHOOSE i \in idx :
                  \A j \in idx : \/ Len(dirs[i]) > Len(dirs[j])
                                 \/ (Len(dirs[i]) = Len(dirs[j]) /\ i <= j)]

\* A variant without the per-segment matching step.
PatternMatchesNoSegments(dirs, filePath, pattern) ==
  LET normalizedPath == StripTrailingSlash(filePath)
      matchingDir == GetMatchingAllowedDirectory(dirs, normalizedPath)
  IN  \/ Minimatch(normalizedPath, pattern, TRUE)
      \/ Minimatch(Basename(normalizedPath), pattern, FALSE)
      \/ /\ Includes(pattern, "/") \/ Includes(pattern, "**")
         /\ matchingDir # NULL
         /\ Minimatch(PathRelative(matchingDir, normalizedPath), pattern, FALSE)

\* A variant that also treats a pattern as a substring of a segment.
PatternMatchesSubstring(dirs, filePath, pattern) ==
  \/ PatternMatchesNoSegments(dirs, filePath, pattern)
  \/ LET segments == Split(StripTrailingSlash(filePath))
     IN  \E i \in 1..Len(segments) : Includes(segments[i], pattern)

\* The callback of protectedPatterns.some(...) in isProtected: the four
\* matching steps for one pattern.
PatternMatches(dirs, filePath, pattern) ==
  LET normalizedPath == StripTrailingSlash(filePath)
      matchingDir == GetMatchingAllowedDirectory(dirs, normalizedPath)
      segments == Split(normalizedPath)
  IN  \/ Minimatch(normalizedPath, pattern, TRUE)
      \/ Minimatch(Basename(normalizedPath), pattern, FALSE)
      \/ /\ Includes(pattern, "/") \/ Includes(pattern, "**")
         /\ matchingDir # NULL
         /\ Minimatch(PathRelative(matchingDir, normalizedPath), pattern, FALSE)
      \/ \E i \in 1..Len(segments) : Minimatch(segments[i], pattern, FALSE)

\* protectedPatterns.some(pattern => ...)
EvaluatePatterns(dirs, patterns, filePath) ==
  \E i \in 1..Len(patterns) : PatternMatches(dirs, filePath, patterns[i])

(***************************************************************************)
(* The inputs of the model: the disk, the configurations and the path      *)
(* strings callers submit.                                                 *)
(***************************************************************************)
\* Longest batch a caller submits.
MaxBatchLen == 2

\* Log calls in flight at once, and log calls made in all.
MaxWriters == 2
MaxWriterCalls == 3

\* Log calls made one after the other.
MaxSequentialCalls == 4

\* Longest array a caller makes of one the engine returned.
MaxReturnedLen == 3

\* The disk at startup: the allowed directory /tmp/proj with two files, a
\* repository directory and an empty directory in it, and beside it an empty
\* directory and a file that no configuration allows.
InitialDirs ==
  {"/", "/etc", "/tmp", "/tmp/proj", "/tmp/proj/.git", "/tmp/proj/empty", "/tmp/out"}
InitialFiles ==
  {"/etc/passwd", "/tmp/proj/a.txt", "/tmp/proj/b.txt", "/tmp/proj/.git/config"}

\* Files another process may remove while the server runs.
ExternalFiles == {"/tmp/proj/a.txt"}

\* Names a change notification may carry, relative to the watched directory.
WatchNames == {"a.txt", ".git", "../out/x"}

\* Path strings submitted in batches: a deletable file, a protected file and a
\* file outside the allowed directory.
BatchPaths == {"/tmp/proj/a.txt", "/tmp/proj/.git/config", "/etc/passwd"}

\* Path strings of the batches whose members are deleted side by side: two
\* deletable files and a protected file.
SiblingPaths == {"/tmp/proj/a.txt", "/tmp/proj/b.txt", "/tmp/proj/.git/config"}

\* Path strings submitted to the deletion service: also a path that starts
\* with the allowed directory and leaves it through "..".
Paths == BatchPaths \cup {"/tmp/proj/../out"}

\* Paths deleteDirectory is called on: the allowed directory itself, which is
\* not empty, an empty directory, a file and a protected directory.
DirectoryPaths == {"/tmp/proj", "/tmp/proj/empty", "/tmp/proj/a.txt", "/tmp/proj/.git"}

\* Paths deleted beside a failing audit sink: a file and a protected file.
SinkPaths == {"/tmp/proj/a.txt", "/tmp/proj/.git/config"}

\* Path strings submitted to validateBatch: also a relative path.
ValidationPaths == Paths \cup {"tmp/proj/a.txt"}

\* The batches whose whole course is followed: the empty batch, two deletable
\* files, a batch with a protected member and a batch over every size limit.
LifecycleBatches ==
  {<<>>,
   <<"/tmp/proj/a.txt", "/tmp/proj/b.txt">>,
   <<"/tmp/proj/a.txt", "/tmp/proj/.git/config">>,
   <<"/tmp/proj/a.txt", "/tmp/proj/b.txt", "/tmp/proj/a.txt">>}

\* Configurations the deletion service runs under.
Configs ==
  [allowedDirectories : {<<"/tmp/proj">>},
   protectedPatterns : {<<".git", "*.env">>},
   maxBatchSize : {1, 2},
   logLevel : {"info"}, maxLogFileSize : {3}, maxLogFiles : {1}]

\* Longest suffix, in segments, of a path string given to the engine.
MaxSegs == 2

\* Configurations the protection engine is examined under: one allowed
\* directory with literal, wildcard and recursive patterns, and two nested
\* allowed directories in both orders.
EngineConfigs ==
  [allowedDirectories : {<<"/tmp/proj">>},
   protectedPatterns : {<<".git">>, <<".git", "#x">>, <<".github", "*.git">>,
                        <<"**/.git/**", ".git*">>},
   maxBatchSize : {2},
   logLevel : {"info"}, maxLogFileSize : {3}, maxLogFiles : {1}]
  \cup
  [allowedDirectories : {<<"/tmp", "/tmp/proj">>, <<"/tmp/proj", "/tmp">>},
   protectedPatterns : {<<".git">>},
   maxBatchSize : {2},
   logLevel : {"info"}, maxLogFileSize : {3}, maxLogFiles : {1}]
  \cup
  [allowedDirectories : {<<"/tmp", "/tmp/proj">>},
   protectedPatterns : {<<"**/.git/**", ".git*">>},
   maxBatchSize : {2},
   logLevel : {"info"}, maxLogFileSize : {3}, maxLogFiles : {1}]

\* Longest sequence of calls the logger receives.
MaxLogCalls == 3

\* Largest limit a reader of the tail passes, beyond the default.
MaxLimit == 4

\* Largest maxRetries passed to executeWithRetry.
MaxRetries == 2

\* Calls a failing audit sink receives.
MaxSinkCalls == 2

\* Calls the logger receives in a long run: enough to overflow the in-memory
\* tail at level info.
MaxTailCalls == 1340

\* Configurations the logger is examined under: every level; a log file holds
\* three size units (an entry takes one, or two with a reason), and one old
\* log file is retained.
LoggerConfigs ==
  [allowedDirectories : {<<"/tmp/proj">>},
   protectedPatterns : {<<".git">>},
   maxBatchSize : {2},
   logLevel : {"none", "debug", "info", "warn", "error"},
   maxLogFileSize : {3}, maxLogFiles : {1}]

\* Configurations the readers of the configuration are examined under: those
\* of the engine, and one naming an allowed directory that is no longer on
\* the disk.
ReaderConfigs ==
  EngineConfigs \cup
  [allowedDirectories : {<<"/tmp/gone", "/tmp/proj">>},
   protectedPatterns : {<<".git", "*.env">>},
   maxBatchSize : {2},
   logLevel : {"info"}, maxLogFileSize : {3}, maxLogFiles : {1}]

\* Beginnings of the path strings given to the engine: an allowed directory,
\* a sibling that shares its characters, a parent and a relative path.
Prefixes == {"/tmp/proj", "/tmp/project", "/tmp", "tmp/proj"}

\* Segments appended to a prefix; the empty segment gives a trailing or a
\* doubled slash.
SegNames == {".git", ".GIT", ".github", "src.git", "#x", ""}

\* prefix/seg1/.../segk for k <= n.
RECURSIVE Suffixes(_)
Suffixes(n) ==
  IF n = 0 THEN {""}
  ELSE LET shorter == Suffixes(n - 1)
       IN  shorter \cup {s \o "/" \o seg : s \in shorter, seg \in SegNames}

\* Path strings given to the protection engine.
PathUniverse == {pre \o suf : pre \in Prefixes, suf \in Suffixes(MaxSegs)}

(***************************************************************************)
(* Protection engine: the decision cache                                   *)
(***************************************************************************)
\* The outcome of protectedPatterns.some(...) for the configurations and path
\* strings of the model, evaluated once.
PatternTable ==
  [c \in {<<cfg.allowedDirectories, cfg.protectedPatterns>> : cfg \in Configs \cup ReaderConfigs},
   p \in Paths \cup SiblingPaths \cup DirectoryPaths \cup PathUniverse |-> EvaluatePatterns(c[1], c[2], p)]

\* protectedPatterns.some(...) as isProtected runs it, read from the table.
PatternDecision(dirs, patterns, filePath) ==
  PatternTable[<<dirs, patterns>>, filePath]

\* A variant of patternCache.set that stores the opposite decision.
CacheSetNegated(cache, key, value) ==
  [k \in DOMAIN cache \cup {key} |-> IF k = key THEN ~value ELSE cache[k]]

\* patternCache.set(key, value)
CacheSet(cache, key, value) ==
  [k \in (DOMAIN cache) \cup {key} |-> IF k = key THEN value ELSE cache[k]]

\* A variant of isProtected that skips the scope check.
IsProtectedNoScope(dirs, patterns, cache, filePath) ==
  IF filePath \in DOMAIN cache THEN cache[filePath]
  ELSE PatternDecision(dirs, patterns, filePath)

\* The value ProtectionEngineImpl.isProtected returns.
IsProtected(dirs, patterns, cache, filePath) ==
  IF ~IsWithinAllowedDirectories(dirs, filePath) THEN TRUE
  ELSE IF filePath \in DOMAIN cache THEN cache[filePath]
  ELSE PatternDecision(dirs, patterns, filePath)

\* A variant of isProtected that caches its decision whatever the path.
IsProtectedCacheUnscoped(dirs, patterns, cache, filePath) ==
  IF filePath \in DOMAIN cache THEN cache
  ELSE CacheSet(cache, filePath, IsProtected(dirs, patterns, cache, filePath))

\* The cache ProtectionEngineImpl.isProtected leaves behind.
IsProtectedCache(dirs, patterns, cache, filePath) ==
  IF ~IsWithinAllowedDirectories(dirs, filePath) \/ filePath \in DOMAIN cache
    THEN cache
    ELSE CacheSet(cache, filePath, PatternDecision(dirs, patterns, filePath))

\* An invalidation that deletes nothing and turns the decisions it finds.
InvalidateCacheOverwriting(cache, changedPath) ==
  [k \in DOMAIN cache |->
     IF Includes(k, changedPath) \/ Includes(changedPath, k) THEN ~cache[k] ELSE cache[k]]

\* ProtectionEngineImpl.invalidateCache: entries whose key contains the
\* changed path, or is contained in it, are deleted.
InvalidateCache(cache, changedPath) ==
  [k \in {c \in DOMAIN cache :
            ~(Includes(c, changedPath) \/ Includes(changedPath, c))} |-> cache[k]]

\* A getter that hands out the array the configuration holds.
ConfiguredArray(arr) == [shared |-> TRUE, mutated |-> FALSE, items |-> arr]

\* [...arr]: a new array holding the items of arr in their order.
SpreadCopy(arr) == [shared |-> FALSE, mutated |-> FALSE, items |-> arr]

\* What a caller may make of an array it was handed: push, shift, reverse.
ArrayMutations(items) ==
  ({Append(items, ".github") : n \in {k \in {1} : Len(items) < MaxReturnedLen}}
     \cup {Tail(items) : n \in {k \in {1} : Len(items) > 0}}
     \cup {[i \in 1..Len(items) |-> items[Len(items) + 1 - i]]}) \ {items}

(***************************************************************************)
(* Deletion service: validation                                            *)
(***************************************************************************)
ReasonNotAbsolute == "Only absolute paths are accepted"
ReasonOutside == "Path is outside allowed directories"
ReasonProtected == "Path matches protected pattern"

\* A variant of validatePath that tests the protection before the scope.
ValidatePathProtectedFirst(dirs, patterns, cache, filePath) ==
  IF ~IsAbsolute(filePath)
    THEN [valid |-> FALSE, reason |-> ReasonNotAbsolute]
  ELSE IF IsProtected(dirs, patterns, cache, filePath)
    THEN [valid |-> FALSE, reason |-> ReasonProtected]
  ELSE IF GetMatchingAllowedDirectory(dirs, filePath) = NULL
    THEN [valid |-> FALSE, reason |-> ReasonOutside]
  ELSE [valid |-> TRUE,
        matchedDirectory |-> GetMatchingAllowedDirectory(dirs, filePath)]

\* SafeDeletionServiceImpl.validatePath: the ValidationResult.
ValidatePath(dirs, patterns, cache, filePath) ==
  IF ~IsAbsolute(filePath)
    THEN [valid |-> FALSE, reason |-> ReasonNotAbsolute]
  ELSE IF GetMatchingAllowedDirectory(dirs, filePath) = NULL
    THEN [valid |-> FALSE, reason |-> ReasonOutside]
  ELSE IF IsProtected(dirs, patterns, cache, filePath)
    THEN [valid |-> FALSE, reason |-> ReasonProtected]
  ELSE [valid |-> TRUE,
        matchedDirectory |-> GetMatchingAllowedDirectory(dirs, filePath)]

\* SafeDeletionServiceImpl.validatePath: the cache after the call; isProtected
\* runs only when the first two checks pass.
ValidatePathCache(dirs, patterns, cache, filePath) ==
  IF IsAbsolute(filePath) /\ GetMatchingAllowedDirectory(dirs, filePath) # NULL
    THEN IsProtectedCache(dirs, patterns, cache, filePath)
    ELSE cache

\* A variant of the loop body that files every failure whose reason speaks of
\* a path under protectedPaths.
ValidateBatchStepByPathWord(acc, filePath, validation, cache2) ==
  IF validation.valid
    THEN [acc EXCEPT !.validPaths = Append(@, filePath), !.cache = cache2]
  ELSE IF Includes(validation.reason, "Path")
    THEN [acc EXCEPT !.protectedPaths =
                       Append(@, [path |-> filePath, reason |-> validation.reason]),
                     !.cache = cache2]
  ELSE [acc EXCEPT !.invalidPaths =
                     Append(@, [path |-> filePath, reason |-> validation.reason]),
                   !.cache = cache2]

\* The body of the loop of validateBatch: the path goes to one of the three
\* lists according to its ValidationResult.
ValidateBatchStep(acc, filePath, validation, cache2) ==
  IF validation.valid
    THEN [acc EXCEPT !.validPaths = Append(@, filePath), !.cache = cache2]
  ELSE IF Includes(validation.reason, "protected")
    THEN [acc EXCEPT !.protectedPaths =
                       Append(@, [path |-> filePath, reason |-> validation.reason]),
                     !.cache = cache2]
  ELSE [acc EXCEPT !.invalidPaths =
                     Append(@, [path |-> filePath, reason |-> validation.reason]),
                   !.cache = cache2]

\* The loop of validateBatch over the paths left, with the lists built so far.
RECURSIVE ValidateBatchLoop(_, _, _, _)
ValidateBatchLoop(dirs, patterns, paths, acc) ==
  IF Len(paths) = 0 THEN acc
  ELSE ValidateBatchLoop(dirs, patterns, Tail(paths),
         ValidateBatchStep(acc, paths[1],
           ValidatePath(dirs, patterns, acc.cache, paths[1]),
           ValidatePathCache(dirs, patterns, acc.cache, paths[1])))

ValidateBatchAcc(dirs, patterns, cache, paths) ==
  ValidateBatchLoop(dirs, patterns, paths,
    [validPaths |-> <<>>, invalidPaths |-> <<>>, protectedPaths |-> <<>>,
     cache |-> cache])

\* The BatchValidationResult validateBatch builds from its three lists.
BatchValidationResult(acc) ==
  [valid |-> Len(acc.protectedPaths) = 0 /\ Len(acc.invalidPaths) = 0,
   validPaths |-> acc.validPaths,
   invalidPaths |-> acc.invalidPaths,
   protectedPaths |-> acc.protectedPaths]

\* SafeDeletionServiceImpl.validateBatch: the BatchValidationResult.
ValidateBatch(dirs, patterns, cache, paths) ==
  BatchValidationResult(ValidateBatchAcc(dirs, patterns, cache, paths))

\* SafeDeletionServiceImpl.validateBatch: the cache after the call.
ValidateBatchCache(dirs, patterns, cache, paths) ==
  ValidateBatchAcc(dirs, patterns, cache, paths).cache

(***************************************************************************)
(* The filesystem: files and directories are named by their resolved       *)
(* absolute path; the root directory always exists.                        *)
(***************************************************************************)
FsErrors == {"ENOENT", "ENOTDIR", "EISDIR", "ENOTEMPTY", "EBUSY", "EACCES"}

Child(cur, name) == IF cur = "/" THEN "/" \o name ELSE cur \o "/" \o name

Parent(node) == PathResolve(node \o "/..")

\* Path resolution as the kernel does it, component by component: every
\* component is looked up in a directory that exists.
RECURSIVE Walk(_, _, _, _)
Walk(files, dirs, cur, segs) ==
  IF Len(segs) = 0 THEN cur
  ELSE IF cur \notin dirs THEN "ENOTDIR"
  ELSE LET s == segs[1]
       IN  IF s = "" \/ s = "." THEN Walk(files, dirs, cur, Tail(segs))
           ELSE IF s = ".." THEN Walk(files, dirs, Parent(cur), Tail(segs))
           ELSE IF Child(cur, s) \notin files \cup dirs THEN "ENOENT"
           ELSE Walk(files, dirs, Child(cur, s), Tail(segs))

\* The object an absolute path string names, or the error of looking it up.
Lookup(files, dirs, p) == Walk(files, dirs, "/", Split(p))

\* fs.existsSync
ExistsSync(files, dirs, p) == Lookup(files, dirs, p) \notin FsErrors

\* ProtectionEngineImpl.validateAllowedDirectories: the allowed directories
\* that exist, pushed in their order onto an array the call creates.
ValidDirectories(files, dirs, allowed) ==
  [shared |-> FALSE, mutated |-> FALSE,
   items |-> SelectSeq(allowed, LAMBDA d : ExistsSync(files, dirs, d))]

HasChildren(files, dirs, node) ==
  \E n \in files \cup dirs : n # node /\ Parent(n) = node

\* An unlink that succeeds also when the file is no longer there.
UnlinkAlsoMissing(files, dirs, p) ==
  LET node == Lookup(files, dirs, p)
  IN  IF node = "ENOENT" THEN PathResolve(p)
      ELSE IF node \in FsErrors THEN node
      ELSE IF node \in dirs THEN "EISDIR"
      ELSE node

\* fs.unlink: the removed file, or the error it throws.
Unlink(files, dirs, p) ==
  LET node == Lookup(files, dirs, p)
  IN  IF node \in FsErrors THEN node
      ELSE IF node \in dirs THEN "EISDIR"
      ELSE node

\* An rmdir that removes a directory whatever it holds.
RmdirNonEmpty(files, dirs, p) ==
  LET node == Lookup(files, dirs, p)
  IN  IF node \in FsErrors THEN node
      ELSE IF node \in files THEN "ENOTDIR"
      ELSE IF node = "/" THEN "EBUSY"
      ELSE node

\* fs.rmdir: the removed directory, or the error it throws.
Rmdir(files, dirs, p) ==
  LET node == Lookup(files, dirs, p)
  IN  IF node \in FsErrors THEN node
      ELSE IF node \in files THEN "ENOTDIR"
      ELSE IF node = "/" THEN "EBUSY"
      ELSE IF HasChildren(files, dirs, node) THEN "ENOTEMPTY"
      ELSE node

(***************************************************************************)
(* State                                                                   *)
(***************************************************************************)
VARIABLES
  allowedDirectories,  \* configuration: the allowed directories, in order
  protectedPatterns,   \* configuration: the protected patterns, in order
  maxBatchSize,        \* configuration: the batch size limit
  subject,             \* the path string under examination (engine behaviours)
  patternCache,        \* ProtectionEngineImpl.patternCache: path -> boolean
  fileWatchers,        \* ProtectionEngineImpl.fileWatchers: watched directories
  fsFiles,             \* the files on disk
  fsDirs,              \* the directories on disk
  call,                \* the deletion-service call in flight
  ret,                 \* the last value returned to a caller
  fsCalls,             \* filesystem calls made by the current service call
  mutations,           \* objects removed by the current service call
  logged,              \* records handed to the logger by the current request
  logLevel,            \* configuration: the minimum level of the logger
  maxLogFileSize,      \* configuration: the size at which a log file is rotated
  maxLogFiles,         \* configuration: the number of log files retained
  inMemoryLogs,        \* LoggingService.inMemoryLogs
  logDirectory,        \* the log directory on disk: whether it exists, its files
  currentLogFile,      \* LoggingService.currentLogFile
  currentLogFileSize,  \* LoggingService.currentLogFileSize
  initInFlight,        \* the constructor's initializeLogDirectory has not finished
  logClock,            \* the time, as the log directory and the file names see it
  logCalls,            \* the calls the logger has received, oldest first
  writers              \* the writeToFile calls in flight, each at an await

\* The state of the logger.
logger == <<inMemoryLogs, logDirectory, currentLogFile, currentLogFileSize,
            initInFlight, logClock, logCalls, writers>>

vars == <<allowedDirectories, protectedPatterns, maxBatchSize, subject,
          patternCache, fileWatchers, fsFiles, fsDirs, call, ret, fsCalls,
          mutations, logged, logLevel, maxLogFileSize, maxLogFiles, logger>>

config == <<allowedDirectories, protectedPatterns, maxBatchSize, subject,
            logLevel, maxLogFileSize, maxLogFiles>>

EmptyCache == [k \in {} |-> FALSE]

\* The log directory before it is created; once created it holds files, each
\* with its lines and the time of its last write.
NoLogDirectory == [exists |-> FALSE, files |-> [n \in {} |-> <<>>]]

\* currentLogFile = '': no log file has been named yet.  Log files are named
\* by the moment their name was generated.
NoLogFile == 0

Idle == [phase |-> "idle"]
Pending == [pending |-> TRUE]
NotIssued == [issued |-> FALSE]

\* All sequences over S of length at most n.
SeqsUpTo(S, n) == UNION {[1..k -> S] : k \in 0..n}

\* State after construction: the configuration is loaded, the cache is empty
\* and every allowed directory that exists is watched.
InitOn(cfg, path, dir) ==
  /\ allowedDirectories = cfg.allowedDirectories
  /\ protectedPatterns = cfg.protectedPatterns
  /\ maxBatchSize = cfg.maxBatchSize
  /\ subject = path
  /\ patternCache = EmptyCache
  /\ fsFiles = InitialFiles
  /\ fsDirs = InitialDirs
  /\ fileWatchers =
       {cfg.allowedDirectories[i] : i \in
          {j \in 1..Len(cfg.allowedDirectories) :
             ExistsSync(InitialFiles, InitialDirs, cfg.allowedDirectories[j])}}
  /\ call = Idle
  /\ ret = [op |-> "none"]
  /\ fsCalls = <<>>
  /\ mutations = {}
  /\ logged = <<>>
  /\ logLevel = cfg.logLevel
  /\ maxLogFileSize = cfg.maxLogFileSize
  /\ maxLogFiles = cfg.maxLogFiles
  /\ inMemoryLogs = <<>>
  /\ logDirectory = dir
  /\ currentLogFile = NoLogFile
  /\ currentLogFileSize = 0
  /\ initInFlight = (cfg.logLevel # "none")
  /\ logClock = 0
  /\ logCalls = <<>>
  /\ writers = <<>>

\* The program started where no log directory exists yet.
InitWith(cfg, path) == InitOn(cfg, path, NoLogDirectory)

Init == \E cfg \in Configs : InitWith(cfg, "")

\* JavaScript runs to completion: no other request or callback runs while a
\* batch is still issuing its deletions.
JsIdle == call.phase \in {"idle", "awaiting"}

(***************************************************************************)
(* Protection engine operations                                            *)
(***************************************************************************)
IsProtectedCall(p) ==
  /\ JsIdle
  /\ ret' = [op |-> "isProtected", arg |-> p,
             value |-> IsProtected(allowedDirectories, protectedPatterns, patternCache, p)]
  /\ patternCache' = IsProtectedCache(allowedDirectories, protectedPatterns, patternCache, p)
  /\ UNCHANGED <<config, logger, fileWatchers, fsFiles, fsDirs, call, fsCalls, mutations, logged>>

\* isProtected called by another request while the deletion service works; its
\* effect on the service is the cache entry it leaves.
ConcurrentIsProtected(p) ==
  /\ JsIdle
  /\ patternCache' = IsProtectedCache(allowedDirectories, protectedPatterns, patternCache, p)
  /\ UNCHANGED <<config, logger, fileWatchers, fsFiles, fsDirs, call, ret, fsCalls, mutations, logged>>

IsWithinAllowedDirectoriesCall(p) ==
  /\ JsIdle
  /\ ret' = [op |-> "isWithinAllowedDirectories", arg |-> p,
             value |-> IsWithinAllowedDirectories(allowedDirectories, p)]
  /\ UNCHANGED <<config, logger, patternCache, fileWatchers, fsFiles, fsDirs, call,
                 fsCalls, mutations, logged>>

GetMatchingAllowedDirectoryCall(p) ==
  /\ JsIdle
  /\ ret' = [op |-> "getMatchingAllowedDirectory", arg |-> p,
             value |-> GetMatchingAllowedDirectory(allowedDirectories, p)]
  /\ UNCHANGED <<config, logger, patternCache, fileWatchers, fsFiles, fsDirs, call,
                 fsCalls, mutations, logged>>

ValidatePathCall(p) ==
  /\ JsIdle
  /\ ret' = [op |-> "validatePath", arg |-> p,
             value |-> ValidatePath(allowedDirectories, protectedPatterns, patternCache, p)]
  /\ patternCache' = ValidatePathCache(allowedDirectories, protectedPatterns, patternCache, p)
  /\ UNCHANGED <<config, logger, fileWatchers, fsFiles, fsDirs, call, fsCalls, mutations, logged>>

\* SafeDeletionServiceImpl.validateBatch(paths)
ValidateBatchCall(paths) ==
  /\ JsIdle
  /\ \E acc \in {ValidateBatchAcc(allowedDirectories, protectedPatterns,
                                   patternCache, paths)} :
       /\ ret' = [op |-> "validateBatch", arg |-> paths,
                  value |-> BatchValidationResult(acc)]
       /\ patternCache' = acc.cache
  /\ UNCHANGED <<config, logger, fileWatchers, fsFiles, fsDirs, call, fsCalls, mutations, logged>>

\* The fs.watch callback of a watched directory: invalidateCache(join(dir, filename)).
Notify(dir, filename) ==
  /\ JsIdle
  /\ dir \in fileWatchers
  /\ patternCache' = InvalidateCache(patternCache, PathJoin(dir, filename))
  /\ UNCHANGED <<config, logger, fileWatchers, fsFiles, fsDirs, call, ret, fsCalls,
                 mutations, logged>>

\* ProtectionEngineImpl.dispose
Dispose ==
  /\ JsIdle
  /\ fileWatchers' = {}
  /\ patternCache' = EmptyCache
  /\ UNCHANGED <<config, logger, fsFiles, fsDirs, call, ret, fsCalls, mutations, logged>>

\* A dispose whose forEach callback has no try: the first close that throws
\* ends the call before the watchers and the cache are cleared.
DisposeCallRethrowing(throwing) ==
  /\ JsIdle
  /\ throwing \subseteq fileWatchers
  /\ ret' = [op |-> "dispose", arg |-> throwing,
             value |-> IF throwing = {} THEN "returned" ELSE "threw"]
  /\ fileWatchers' = IF throwing = {} THEN {} ELSE fileWatchers
  /\ patternCache' = IF throwing = {} THEN EmptyCache ELSE patternCache
  /\ UNCHANGED <<config, logger, fsFiles, fsDirs, call, fsCalls, mutations, logged>>

\* ProtectionEngineImpl.dispose as its caller sees it, the close of the
\* watchers in throwing failing: each failure is caught and reported on the
\* console, then the watchers and the cache are cleared.
DisposeCall(throwing) ==
  /\ JsIdle
  /\ throwing \subseteq fileWatchers
  /\ ret' = [op |-> "dispose", arg |-> throwing, value |-> "returned"]
  /\ fileWatchers' = {}
  /\ patternCache' = EmptyCache
  /\ UNCHANGED <<config, logger, fsFiles, fsDirs, call, fsCalls, mutations, logged>>

\* ProtectionEngineImpl.getProtectedPatterns
GetProtectedPatternsCall ==
  /\ JsIdle
  /\ ret' = [op |-> "getProtectedPatterns", arg |-> NULL,
             value |-> SpreadCopy(protectedPatterns)]
  /\ UNCHANGED <<config, logger, patternCache, fileWatchers, fsFiles, fsDirs, call,
                 fsCalls, mutations, logged>>

\* ProtectionEngineImpl.validateAllowedDirectories
ValidateAllowedDirectoriesCall ==
  /\ JsIdle
  /\ ret' = [op |-> "validateAllowedDirectories", arg |-> NULL,
             value |-> ValidDirectories(fsFiles, fsDirs, allowedDirectories)]
  /\ UNCHANGED <<config, logger, patternCache, fileWatchers, fsFiles, fsDirs, call,
                 fsCalls, mutations, logged>>

ArrayOps == {"getProtectedPatterns", "validateAllowedDirectories"}

\* The caller changes the array the engine returned to it; an array that is
\* the configuration's own changes there as well.
CallerMutates(items) ==
  /\ JsIdle
  /\ ret.op \in ArrayOps
  /\ items # ret.value.items
  /\ ret' = [ret EXCEPT !.value.items = items, !.value.mutated = TRUE]
  /\ protectedPatterns' =
       IF ret.op = "getProtectedPatterns" /\ ret.value.shared
         THEN items ELSE protectedPatterns
  /\ allowedDirectories' =
       IF ret.op = "validateAllowedDirectories" /\ ret.value.shared
         THEN items ELSE allowedDirectories
  /\ UNCHANGED <<maxBatchSize, subject, logLevel, maxLogFileSize, maxLogFiles, logger,
                 patternCache, fileWatchers, fsFiles, fsDirs, call, fsCalls, mutations,
                 logged>>

(***************************************************************************)
(* Deletion service operations.  An async method runs synchronously up to  *)
(* its first await (the fs.unlink or fs.rmdir promise); the filesystem     *)
(* call then executes at some later moment and the method returns after.   *)
(***************************************************************************)
\* A choice of the filesystem call that takes rmdir for a batch member.
SyscallByKind(op) == IF op = "deleteFile" THEN "unlink" ELSE "rmdir"

\* The filesystem call of a deletion: deleteDirectory calls fs.rmdir, and
\* deleteFile, alone or as a member of a batch, fs.unlink.
Syscall(op) == IF op = "deleteDirectory" THEN "rmdir" ELSE "unlink"

NotFound(op) ==
  IF op = "deleteDirectory" THEN "Directory not found" ELSE "File not found"

\* A variant that returns a rejection without a record for the logger.
DeleteValidatedSilentRejection(op, validation, cache2, files, dirs, p) ==
  IF ~validation.valid
    THEN [cache |-> cache2,
          result |-> [success |-> FALSE, path |-> p, reason |-> validation.reason],
          log |-> <<>>,
          fsCalls |-> <<>>]
  ELSE IF ~ExistsSync(files, dirs, p)
    THEN [cache |-> cache2,
          result |-> [success |-> FALSE, path |-> p, error |-> NotFound(op)],
          log |-> <<[fn |-> "logDeletion", path |-> p, result |-> "failed"]>>,
          fsCalls |-> <<[fn |-> "existsSync", path |-> p]>>]
  ELSE [cache |-> cache2,
        result |-> Pending,
        log |-> <<>>,
        fsCalls |-> <<[fn |-> "existsSync", path |-> p],
                      [fn |-> Syscall(op), path |-> p]>>]

\* A variant that looks the target up on disk before it looks at the
\* ValidationResult.
DeleteValidatedExistsFirst(op, validation, cache2, files, dirs, p) ==
  IF ~ExistsSync(files, dirs, p)
    THEN [cache |-> cache2,
          result |-> [success |-> FALSE, path |-> p, error |-> NotFound(op)],
          log |-> <<[fn |-> "logDeletion", path |-> p, result |-> "failed"]>>,
          fsCalls |-> <<[fn |-> "existsSync", path |-> p]>>]
  ELSE IF ~validation.valid
    THEN [cache |-> cache2,
          result |-> [success |-> FALSE, path |-> p, reason |-> validation.reason],
          log |-> <<[fn |-> "logDeletion", path |-> p, result |-> "rejected"]>>,
          fsCalls |-> <<[fn |-> "existsSync", path |-> p]>>]
  ELSE [cache |-> cache2,
        result |-> Pending,
        log |-> <<>>,
        fsCalls |-> <<[fn |-> "existsSync", path |-> p],
                      [fn |-> Syscall(op), path |-> p]>>]

\* deleteFile and deleteDirectory after validatePath has returned: the
\* rejection, or existsSync and then the filesystem call is issued.
DeleteValidated(op, validation, cache2, files, dirs, p) ==
  IF ~validation.valid
    THEN [cache |-> cache2,
          result |-> [success |-> FALSE, path |-> p, reason |-> validation.reason],
          log |-> <<[fn |-> "logDeletion", path |-> p, result |-> "rejected"]>>,
          fsCalls |-> <<>>]
  ELSE IF ~ExistsSync(files, dirs, p)
    THEN [cache |-> cache2,
          result |-> [success |-> FALSE, path |-> p, error |-> NotFound(op)],
          log |-> <<[fn |-> "logDeletion", path |-> p, result |-> "failed"]>>,
          fsCalls |-> <<[fn |-> "existsSync", path |-> p]>>]
  ELSE [cache |-> cache2,
        result |-> Pending,
        log |-> <<>>,
        fsCalls |-> <<[fn |-> "existsSync", path |-> p],
                      [fn |-> Syscall(op), path |-> p]>>]

\* A variant of the synchronous part that does not validate the path.
DeleteSyncNoValidation(op, cache, files, dirs, p) ==
  DeleteValidated(op, [valid |-> TRUE, matchedDirectory |-> NULL], cache,
                  files, dirs, p)

\* The synchronous part of deleteFile and deleteDirectory: validatePath, then
\* the rest.
DeleteSync(op, cache, files, dirs, p) ==
  DeleteValidated(op,
    ValidatePath(allowedDirectories, protectedPatterns, cache, p),
    ValidatePathCache(allowedDirectories, protectedPatterns, cache, p),
    files, dirs, p)

\* deleteFile(p) and deleteDirectory(p), up to the await or to an early return.
DeleteSingle(op, p) ==
  \E s \in {DeleteSync(op, patternCache, fsFiles, fsDirs, p)} :
      /\ call = Idle
      /\ patternCache' = s.cache
      /\ fsCalls' = s.fsCalls
      /\ logged' = s.log
      /\ mutations' = {}
      /\ IF s.result = Pending
           THEN /\ call' = [phase |-> "awaiting", op |-> op, paths |-> <<p>>,
                            validPaths |-> <<p>>, results |-> <<Pending>>, next |-> 2]
                /\ ret' = [op |-> "none"]
           ELSE /\ call' = Idle
                /\ ret' = [op |-> op, arg |-> p, value |-> s.result]
      /\ UNCHANGED <<config, logger, fileWatchers, fsFiles, fsDirs>>

DeleteFile(p) == DeleteSingle("deleteFile", p)

DeleteDirectory(p) == DeleteSingle("deleteDirectory", p)

ReasonBatchSize == "Batch size limit exceeded"
ReasonBatchInvalid == "Batch contains protected or invalid paths"

\* The reason given to each path of an over-long batch; the text carries the
\* configured limit.
RejectedForSize(limit, paths) ==
  [i \in 1..Len(paths) |->
     [path |-> paths[i], reason |-> "Batch size exceeds limit", limit |-> limit]]

\* A variant of the size check that also cancels a batch of exactly the limit.
BatchTooLongAtLimit(paths, limit) == Len(paths) >= limit

\* The size check of deleteBatch.
BatchTooLong(paths, limit) == Len(paths) > limit

\* A variant of the validity check that lets a batch through when some member
\* is valid.
BatchValidAny(validation) == Len(validation.validPaths) > 0

\* A validity check that looks at the invalid members only, so that a batch
\* with a protected member goes ahead without it.
BatchValidIgnoringProtected(validation) == validation.invalidPaths = <<>>

\* The validity check of deleteBatch.
BatchValid(validation) == validation.valid

\* deleteBatch(paths): the size check and validateBatch.  A cancelled batch
\* returns at once; otherwise the deletions are issued one after the other.
DeleteBatch(paths) ==
  /\ call = Idle
  /\ fsCalls' = <<>>
  /\ logged' = <<>>
  /\ mutations' = {}
  /\ IF BatchTooLong(paths, maxBatchSize)
       THEN /\ ret' = [op |-> "deleteBatch", arg |-> paths,
                       value |-> [deleted |-> <<>>, failed |-> <<>>,
                                  rejected |-> RejectedForSize(maxBatchSize, paths),
                                  cancelled |-> TRUE, reason |-> ReasonBatchSize]]
            /\ UNCHANGED <<patternCache, call>>
       ELSE \E acc \in {ValidateBatchAcc(allowedDirectories, protectedPatterns,
                                         patternCache, paths)} :
            \E validation \in {BatchValidationResult(acc)} :
            /\ patternCache' = acc.cache
            /\ IF ~BatchValid(validation)
                 THEN /\ ret' = [op |-> "deleteBatch", arg |-> paths,
                                 value |-> [deleted |-> <<>>, failed |-> <<>>,
                                            rejected |-> validation.invalidPaths
                                                         \o validation.protectedPaths,
                                            cancelled |-> TRUE,
                                            reason |-> ReasonBatchInvalid]]
                      /\ call' = Idle
                 ELSE /\ ret' = [op |-> "none"]
                      /\ call' = [phase |-> IF Len(validation.validPaths) = 0
                                              THEN "awaiting" ELSE "issuing",
                                  op |-> "deleteBatch", paths |-> paths,
                                  validPaths |-> validation.validPaths,
                                  results |-> [i \in 1..Len(validation.validPaths)
                                                 |-> NotIssued],
                                  next |-> 1]
  /\ UNCHANGED <<config, logger, fileWatchers, fsFiles, fsDirs>>

\* One iteration of validPaths.map(async filePath => deleteFile(filePath)):
\* the synchronous part of the next deleteFile.
BatchIssue ==
  /\ call.phase = "issuing"
  /\ \E i \in {call.next} :
     \E s \in {DeleteSync("deleteFile", patternCache, fsFiles, fsDirs, call.validPaths[i])} :
         /\ patternCache' = s.cache
         /\ fsCalls' = fsCalls \o s.fsCalls
         /\ logged' = logged \o s.log
         /\ call' = [call EXCEPT !.results[i] = s.result,
                                 !.next = i + 1,
                                 !.phase = IF i = Len(call.validPaths)
                                             THEN "awaiting" ELSE "issuing"]
  /\ UNCHANGED <<config, logger, fileWatchers, fsFiles, fsDirs, ret, mutations>>

\* An issued fs.unlink or fs.rmdir executes: it removes the object the path
\* resolves to, or fails; it may also fail for a reason the model does not
\* track (permissions), which leaves the disk as it is.
SyscallExec(i) ==
  /\ call.phase \in {"issuing", "awaiting"}
  /\ i \in 1..Len(call.results)
  /\ call.results[i] = Pending
  /\ LET p == call.validPaths[i]
         fn == Syscall(call.op)
     IN  \E outcome \in {IF fn = "rmdir" THEN Rmdir(fsFiles, fsDirs, p)
                                          ELSE Unlink(fsFiles, fsDirs, p),
                         "EACCES"} :
           IF outcome \in FsErrors
             THEN /\ call' = [call EXCEPT !.results[i] =
                                [success |-> FALSE, path |-> p, error |-> outcome]]
                  /\ logged' = Append(logged,
                                 [fn |-> "logError", error |-> outcome,
                                  context |-> call.op, path |-> p])
                  /\ UNCHANGED <<fsFiles, fsDirs, mutations>>
             ELSE /\ call' = [call EXCEPT !.results[i] = [success |-> TRUE, path |-> p]]
                  /\ logged' = Append(logged,
                                 [fn |-> "logDeletion", path |-> p, result |-> "success"])
                  /\ fsFiles' = fsFiles \ {outcome}
                  /\ fsDirs' = fsDirs \ {outcome}
                  /\ mutations' = mutations \cup {[fn |-> fn, path |-> p, node |-> outcome]}
  /\ UNCHANGED <<config, logger, patternCache, fileWatchers, ret, fsCalls>>

\* A variant of the classification that stops at the first deletion that did
\* not succeed.
RECURSIVE DeletedOfUntilFailure(_, _)
DeletedOfUntilFailure(validPaths, results) ==
  IF Len(results) = 0 \/ ~results[1].success THEN <<>>
  ELSE <<validPaths[1]>> \o DeletedOfUntilFailure(Tail(validPaths), Tail(results))

\* A variant of the classification that lists the last member first.
RECURSIVE DeletedOfReversed(_, _)
DeletedOfReversed(validPaths, results) ==
  IF Len(results) = 0 THEN <<>>
  ELSE DeletedOfReversed(Tail(validPaths), Tail(results))
       \o (IF results[1].success THEN <<validPaths[1]>> ELSE <<>>)

\* The paths of the settled deletions that succeeded, in input order.
RECURSIVE DeletedOf(_, _)
DeletedOf(validPaths, results) ==
  IF Len(results) = 0 THEN <<>>
  ELSE (IF results[1].success THEN <<validPaths[1]>> ELSE <<>>)
       \o DeletedOf(Tail(validPaths), Tail(results))

\* A variant of the classification that leaves out the deletions whose target
\* was not there.
RECURSIVE FailedOfPresentTargets(_, _)
FailedOfPresentTargets(validPaths, results) ==
  IF Len(results) = 0 THEN <<>>
  ELSE (IF results[1].success \/ results[1].error \in {"ENOENT", "File not found"}
          THEN <<>>
          ELSE <<[path |-> validPaths[1], error |-> results[1].error]>>)
       \o FailedOfPresentTargets(Tail(validPaths), Tail(results))

\* The failures of the settled deletions, in input order:
\* error ?? reason ?? 'Unknown error'.
RECURSIVE FailedOf(_, _)
FailedOf(validPaths, results) ==
  IF Len(results) = 0 THEN <<>>
  ELSE (IF results[1].success THEN <<>>
        ELSE <<[path |-> validPaths[1],
                error |-> IF "error" \in DOMAIN results[1] THEN results[1].error
                          ELSE IF "reason" \in DOMAIN results[1] THEN results[1].reason
                          ELSE "Unknown error"]>>)
       \o FailedOf(Tail(validPaths), Tail(results))

\* A variant of the return that reports a batch with a failed deletion as
\* cancelled.
ReturnFlaggingFailures ==
  /\ call.phase = "awaiting"
  /\ \A i \in 1..Len(call.results) : call.results[i] # Pending
  /\ ret' = IF call.op = "deleteBatch"
              THEN [op |-> "deleteBatch", arg |-> call.paths,
                    value |-> IF FailedOf(call.validPaths, call.results) = <<>>
                                THEN [deleted |-> DeletedOf(call.validPaths, call.results),
                                      failed |-> <<>>, rejected |-> <<>>]
                                ELSE [deleted |-> DeletedOf(call.validPaths, call.results),
                                      failed |-> FailedOf(call.validPaths, call.results),
                                      rejected |-> <<>>, cancelled |-> TRUE,
                                      reason |-> "Batch failed"]]
              ELSE [op |-> call.op, arg |-> call.paths[1], value |-> call.results[1]]
  /\ call' = Idle
  /\ UNCHANGED <<config, logger, patternCache, fileWatchers, fsFiles, fsDirs, fsCalls,
                 mutations, logged>>

\* The call in flight returns once every filesystem call it issued has
\* settled: the DeletionResult of a single deletion, or the classified
\* BatchDeletionResult after Promise.allSettled.
Return ==
  /\ call.phase = "awaiting"
  /\ \A i \in 1..Len(call.results) : call.results[i] # Pending
  /\ ret' = IF call.op = "deleteBatch"
              THEN [op |-> "deleteBatch", arg |-> call.paths,
                    value |-> [deleted |-> DeletedOf(call.validPaths, call.results),
                               failed |-> FailedOf(call.validPaths, call.results),
                               rejected |-> <<>>]]
              ELSE [op |-> call.op, arg |-> call.paths[1], value |-> call.results[1]]
  /\ call' = Idle
  /\ UNCHANGED <<config, logger, patternCache, fileWatchers, fsFiles, fsDirs, fsCalls,
                 mutations, logged>>

\* Another process removes a file.
ExternalRemove(f) ==
  /\ f \in fsFiles
  /\ fsFiles' = fsFiles \ {f}
  /\ UNCHANGED <<config, logger, patternCache, fileWatchers, fsDirs, call, ret, fsCalls,
                 mutations, logged>>

(***************************************************************************)
(* The delete tool: DeleteToolHandler.handle calls the deletion service    *)
(* and, when the call has returned, logs what the result lists.            *)
(***************************************************************************)
\* The service call of the request has returned and handle has not yet run on.
HandlePending == call = Idle /\ ret.op \in {"deleteFile", "deleteBatch"}

\* handle({paths}): deleteFile for a single path, deleteBatch otherwise.  The
\* continuation of an earlier request runs before a new request is read.
HandleDelete(paths) ==
  /\ ~HandlePending
  /\ IF Len(paths) = 1 THEN DeleteFile(paths[1]) ELSE DeleteBatch(paths)

\* The logDeletion calls handle makes for a DeletionResult.
HandleRecordsSingle(result) ==
  IF result.success
    THEN <<[fn |-> "logDeletion", path |-> result.path, result |-> "success"]>>
  ELSE IF "reason" \in DOMAIN result
    THEN <<[fn |-> "logDeletion", path |-> result.path, result |-> "rejected",
            reason |-> IF "error" \in DOMAIN result THEN result.error ELSE result.reason]>>
  ELSE <<[fn |-> "logDeletion", path |-> result.path, result |-> "failed",
          reason |-> IF "error" \in DOMAIN result THEN result.error ELSE "Unknown error"]>>

\* The logDeletion calls handle makes for a BatchDeletionResult: the deleted
\* paths, then the failed, then the rejected.
HandleRecordsBatch(result) ==
  [i \in 1..Len(result.deleted) |->
     [fn |-> "logDeletion", path |-> result.deleted[i], result |-> "success"]]
  \o [i \in 1..Len(result.failed) |->
       [fn |-> "logDeletion", path |-> result.failed[i].path, result |-> "failed",
        reason |-> result.failed[i].error]]
  \o [i \in 1..Len(result.rejected) |->
       [fn |-> "logDeletion", path |-> result.rejected[i].path, result |-> "rejected",
        reason |-> result.rejected[i].reason]]

\* handle after the awaited service call: the log calls, then the response.
HandleLog ==
  /\ HandlePending
  /\ logged' = logged \o (IF ret.op = "deleteFile"
                             THEN HandleRecordsSingle(ret.value)
                             ELSE HandleRecordsBatch(ret.value))
  /\ ret' = [op |-> "delete",
             arg |-> IF ret.op = "deleteFile" THEN <<ret.arg>> ELSE ret.arg,
             value |-> ret.value]
  /\ UNCHANGED <<config, logger, patternCache, fileWatchers, fsFiles, fsDirs, call,
                 fsCalls, mutations>>

(***************************************************************************)
(* The audit logger.  A record is a call of one of its methods; the entry  *)
(* is the AuditLog the method builds from it.                              *)
(***************************************************************************)
\* The AuditLog entry a logger method builds (timestamp and requestId left
\* out); an undefined reason is NULL, undefined paths the empty sequence.
EntryOf(record) ==
  IF record.fn = "logDeletion"
    THEN [operation |-> "delete", paths |-> <<record.path>>, result |-> record.result,
          reason |-> IF "reason" \in DOMAIN record THEN record.reason ELSE NULL]
  ELSE IF record.fn = "logError"
    THEN [operation |-> "delete", paths |-> <<>>, result |-> "failed",
          reason |-> record.context \o ": " \o record.path \o ": " \o record.error]
  ELSE IF record.fn = "logDebug"
    THEN [operation |-> "get_allowed", paths |-> <<>>, result |-> "success",
          reason |-> "DEBUG: " \o record.message]
  ELSE [operation |-> record.operation, paths |-> <<>>, result |-> record.result,
        reason |-> NULL]

\* shouldLog: the levels in ascending order.
LogLevels == <<"debug", "info", "warn", "error">>

\* logLevels.indexOf(level), counted from 0; -1 when absent.
LevelIndexOf(level) ==
  IF \E i \in 1..Len(LogLevels) : LogLevels[i] = level
    THEN (CHOOSE i \in 1..Len(LogLevels) : LogLevels[i] = level) - 1
    ELSE -1

\* shouldLog: the level index of an entry.
EntryLevelIndex(entry) ==
  IF entry.result = "failed" THEN 3
  ELSE IF entry.result = "rejected" THEN 2
  ELSE IF entry.reason # NULL /\ StartsWith(entry.reason, "DEBUG:") THEN 0
  ELSE 1

\* A variant of shouldLog that drops the entries at the configured level.
ShouldLogAbove(level, entry) == EntryLevelIndex(entry) > LevelIndexOf(level)

\* LoggingService.shouldLog
ShouldLog(level, entry) == EntryLevelIndex(entry) >= LevelIndexOf(level)

\* Buffer.byteLength of the serialized entry, in size units: one for the
\* entry, one more when it carries a reason.
EntrySize(entry) == IF entry.reason = NULL THEN 1 ELSE 2

\* shouldRotateLog
ShouldRotateLog(size, entrySize, maxSize) == size + entrySize > maxSize

\* The names of the n files of the directory written least recently.
RECURSIVE OldestFiles(_, _)
OldestFiles(files, n) ==
  IF n <= 0 \/ DOMAIN files = {} THEN {}
  ELSE LET oldest == CHOOSE f \in DOMAIN files :
                       \A g \in DOMAIN files : files[f].mtime <= files[g].mtime
       IN  {oldest} \cup OldestFiles([g \in DOMAIN files \ {oldest} |-> files[g]], n - 1)

\* The names of the files other programs keep in the log directory; such a
\* file is known to the model by a number below -100.
OtherNames == <<"corrupted.log", "safe-deletion-notes.txt">>

\* The name of a file of the log directory: the logger names its files
\* safe-deletion-<timestamp>-<random>.log, a new name every time, and the
\* model tells these names apart by the moment n of naming.
FileName(n) ==
  IF n < 0 - 100 THEN OtherNames[0 - 100 - n]
  ELSE "safe-deletion-" \o ToString(n) \o ".log"

\* cleanupOldLogFiles: file.startsWith('safe-deletion-') && file.endsWith('.log')
IsLogFile(n) == StartsWith(FileName(n), "safe-deletion-") /\ EndsWith(FileName(n), ".log")

\* cleanupOldLogFiles: the files left when the oldest log files beyond
\* maxFiles are unlinked.
CleanupOldLogFiles(files, maxFiles) ==
  LET logFiles == {f \in DOMAIN files : IsLogFile(f)}
  IN  IF Cardinality(logFiles) <= maxFiles THEN files
      ELSE [g \in DOMAIN files \ OldestFiles([f \in logFiles |-> files[f]],
                                             Cardinality(logFiles) - maxFiles)
              |-> files[g]]

\* fs.appendFile(name, line) at time now.
AppendFile(files, name, line, now) ==
  [g \in DOMAIN files \cup {name} |->
     IF g = name
       THEN [lines |-> (IF name \in DOMAIN files THEN files[name].lines ELSE <<>>)
                        \o <<line>>,
             mtime |-> now]
       ELSE files[g]]

\* The size of a file as fs.stat reports it; 0 when the file does not exist.
StatSize(files, name) ==
  IF name \notin DOMAIN files THEN 0
  ELSE LET Sum[i \in 0..Len(files[name].lines)] ==
             IF i = 0 THEN 0 ELSE Sum[i - 1] + EntrySize(files[name].lines[i])
       IN  Sum[Len(files[name].lines)]

\* initializeLogDirectory: mkdir, a new file name, the size of that file.
\* st is the logger's state [dir, file, size, now].
InitializeLogDirectory(st) ==
  [dir |-> [st.dir EXCEPT !.exists = TRUE],
   file |-> st.now + 1,
   size |-> StatSize(st.dir.files, st.now + 1),
   now |-> st.now + 1]

\* A rotation that resets the size and cleans up but keeps the file name.
RotateLogFileSameName(st, maxFiles) ==
  IF st.file = NoLogFile THEN st
  ELSE [dir |-> [st.dir EXCEPT !.files = CleanupOldLogFiles(@, maxFiles)],
        file |-> st.file,
        size |-> 0,
        now |-> st.now + 1]

\* rotateLogFile: a new file name, size 0, then cleanupOldLogFiles.
RotateLogFile(st, maxFiles) ==
  IF st.file = NoLogFile THEN st
  ELSE [dir |-> [st.dir EXCEPT !.files = CleanupOldLogFiles(@, maxFiles)],
        file |-> st.now + 1,
        size |-> 0,
        now |-> st.now + 1]

\* writeToFile after the file name is known: the rotation when it is due.
RotateIfDue(st, entry, maxSize, maxFiles) ==
  IF ShouldRotateLog(st.size, EntrySize(entry), maxSize)
    THEN RotateLogFile(st, maxFiles)
    ELSE st

\* writeToFile after the rotation check: appendFile and the size counter.
AppendEntry(st, entry) ==
  [dir |-> [st.dir EXCEPT !.files = AppendFile(@, st.file, entry, st.now + 1)],
   file |-> st.file,
   size |-> st.size + EntrySize(entry),
   now |-> st.now + 1]

\* LoggingService.writeToFile
WriteToFile(st, entry, maxSize, maxFiles) ==
  AppendEntry(
    RotateIfDue(IF st.file = NoLogFile THEN InitializeLogDirectory(st) ELSE st,
                entry, maxSize, maxFiles),
    entry)

\* The in-memory tail keeps the last 1000 entries.
MaxInMemoryLogs == 1000

\* A tail that, once full, keeps what it holds and drops the entry pushed.
PushInMemoryKeepingOldest(logs, entry) ==
  IF Len(logs) + 1 > MaxInMemoryLogs THEN logs ELSE Append(logs, entry)

\* inMemoryLogs.push(entry) and the splice that keeps the tail.
PushInMemory(logs, entry) ==
  IF Len(logs) + 1 > MaxInMemoryLogs
    THEN SubSeq(Append(logs, entry), Len(logs) + 2 - MaxInMemoryLogs, Len(logs) + 1)
    ELSE Append(logs, entry)

\* LoggingService.writeLogEntry for the entry of a call the logger received.
WriteLogEntry(record) ==
  /\ logCalls' = Append(logCalls, record)
  /\ \E entry \in {EntryOf(record)} :
       IF logLevel = "none" \/ ~ShouldLog(logLevel, entry)
         THEN UNCHANGED <<writers, inMemoryLogs, logDirectory, currentLogFile,
                          currentLogFileSize, logClock>>
         ELSE \E st \in {WriteToFile([dir |-> logDirectory, file |-> currentLogFile,
                                       size |-> currentLogFileSize, now |-> logClock],
                                      entry, maxLogFileSize, maxLogFiles)} :
                /\ inMemoryLogs' = PushInMemory(inMemoryLogs, entry)
                /\ logDirectory' = st.dir
                /\ currentLogFile' = st.file
                /\ currentLogFileSize' = st.size
                /\ logClock' = st.now
  /\ UNCHANGED <<config, writers, initInFlight, patternCache, fileWatchers, fsFiles, fsDirs,
                 call, ret, fsCalls, mutations, logged>>

\* LoggingService.logDeletion(path, result, reason); reason may be undefined.
LogDeletion(path, result, reason) ==
  WriteLogEntry(IF reason = NULL
                  THEN [fn |-> "logDeletion", path |-> path, result |-> result]
                  ELSE [fn |-> "logDeletion", path |-> path, result |-> result,
                        reason |-> reason])

\* LoggingService.logOperation(operation, result)
LogOperation(operation, result) ==
  WriteLogEntry([fn |-> "logOperation", operation |-> operation, result |-> result])

\* LoggingService.logError(error, context), the context naming the call and
\* its path.
LogError(error, context, path) ==
  WriteLogEntry([fn |-> "logError", error |-> error, context |-> context, path |-> path])

\* LoggingService.logDebug(message): nothing is written below level debug.
LogDebug(message) ==
  IF logLevel # "debug"
    THEN /\ logCalls' = Append(logCalls, [fn |-> "logDebug", message |-> message])
         /\ UNCHANGED <<config, writers, inMemoryLogs, logDirectory, currentLogFile,
                        currentLogFileSize, initInFlight, logClock, patternCache,
                        fileWatchers, fsFiles, fsDirs, call, ret, fsCalls, mutations,
                        logged>>
    ELSE WriteLogEntry([fn |-> "logDebug", message |-> message])

\* The initializeLogDirectory call the constructor started completes.
ConstructorInitialized ==
  /\ initInFlight
  /\ initInFlight' = FALSE
  /\ \E st \in {InitializeLogDirectory([dir |-> logDirectory, file |-> currentLogFile,
                                         size |-> currentLogFileSize, now |-> logClock])} :
       /\ logDirectory' = st.dir
       /\ currentLogFile' = st.file
       /\ currentLogFileSize' = st.size
       /\ logClock' = st.now
  /\ UNCHANGED <<config, writers, inMemoryLogs, logCalls, patternCache, fileWatchers, fsFiles,
                 fsDirs, call, ret, fsCalls, mutations, logged>>

\* The calls of the audit sink that can fail: mkdir in initializeLogDirectory,
\* appendFile in writeToFile, readdir and unlink in cleanupOldLogFiles.
SinkFaults == {"none", "mkdir", "appendFile", "readdir", "unlink"}

\* The try block of writeToFile when the call named by fault fails:
\* initializeLogDirectory catches a failing mkdir and leaves the file name
\* empty, cleanupOldLogFiles catches a failing readdir or unlink and deletes
\* nothing, and appendFile throws when it fails or has no file name to open.
TryWriteToFile(fault, st, entry, maxSize, maxFiles) ==
  LET started == IF st.file # NoLogFile THEN st
                 ELSE IF fault = "mkdir" THEN st
                 ELSE InitializeLogDirectory(st)
      rotated == IF ~ShouldRotateLog(started.size, EntrySize(entry), maxSize) THEN started
                 ELSE IF fault \in {"readdir", "unlink"}
                   THEN [RotateLogFile(started, maxFiles) EXCEPT !.dir = started.dir]
                 ELSE RotateLogFile(started, maxFiles)
  IN  IF rotated.file = NoLogFile THEN [st |-> rotated, thrown |-> "ENOENT"]
      ELSE IF fault = "appendFile" THEN [st |-> rotated, thrown |-> "EIO"]
      ELSE [st |-> AppendEntry(rotated, entry), thrown |-> NULL]

\* A writeToFile without its catch clause.
WriteToFileRethrowing(fault, st, entry, maxSize, maxFiles) ==
  TryWriteToFile(fault, st, entry, maxSize, maxFiles)

\* LoggingService.writeToFile on a sink that may fail: the catch clause
\* reports the error on the console and the call resolves.
WriteToFileUnder(fault, st, entry, maxSize, maxFiles) ==
  [TryWriteToFile(fault, st, entry, maxSize, maxFiles) EXCEPT !.thrown = NULL]

\* LoggingService.writeLogEntry on a sink that may fail; the call is noted
\* with the way its promise settled.
WriteLogEntryUnder(fault, record) ==
  \E entry \in {EntryOf(record)} :
    IF logLevel = "none" \/ ~ShouldLog(logLevel, entry)
      THEN /\ logCalls' = Append(logCalls, record @@ [settled |-> "resolved"])
           /\ UNCHANGED <<config, writers, inMemoryLogs, logDirectory, currentLogFile,
                          currentLogFileSize, logClock, initInFlight, patternCache,
                          fileWatchers, fsFiles, fsDirs, call, ret, fsCalls, mutations,
                          logged>>
      ELSE \E w \in {WriteToFileUnder(fault,
                        [dir |-> logDirectory, file |-> currentLogFile,
                         size |-> currentLogFileSize, now |-> logClock],
                        entry, maxLogFileSize, maxLogFiles)} :
             /\ logCalls' = Append(logCalls,
                    record @@ [settled |-> IF w.thrown = NULL THEN "resolved"
                                                              ELSE "rejected"])
             /\ inMemoryLogs' = PushInMemory(inMemoryLogs, entry)
             /\ logDirectory' = w.st.dir
             /\ currentLogFile' = w.st.file
             /\ currentLogFileSize' = w.st.size
             /\ logClock' = w.st.now
             /\ UNCHANGED <<config, writers, initInFlight, patternCache, fileWatchers, fsFiles,
                            fsDirs, call, ret, fsCalls, mutations, logged>>

\* The initializeLogDirectory call the constructor started fails at mkdir:
\* the error is caught and reported on the console.
ConstructorInitFailed ==
  /\ initInFlight
  /\ initInFlight' = FALSE
  /\ UNCHANGED <<config, writers, inMemoryLogs, logDirectory, currentLogFile, currentLogFileSize,
                 logClock, logCalls, patternCache, fileWatchers, fsFiles, fsDirs, call,
                 ret, fsCalls, mutations, logged>>

(***************************************************************************)
(* writeToFile as its awaits divide it.  A log call runs to its first      *)
(* await; later each completion of a filesystem call resumes the call that *)
(* awaited it, which then runs to its next await.  Calls in flight         *)
(* interleave at these points only.                                        *)
(***************************************************************************)
\* A switch to a new file name that leaves the size counter as it is.
SwitchKeepingSize(st) ==
  [dir |-> st.dir, file |-> st.now + 1, size |-> st.size, now |-> st.now + 1]

\* The part of rotateLogFile before its await: a new file name, size 0.
SwitchLogFile(st) ==
  [dir |-> st.dir, file |-> st.now + 1, size |-> 0, now |-> st.now + 1]

\* writeToFile from the rotation check to its next await: readdir in
\* cleanupOldLogFiles when a rotation is due, otherwise appendFile, called
\* with the file name current at that moment.  A call that has reached
\* appendFile remembers whether it went through rotateLogFile.
RotationCheck(st, w, maxSize) ==
  IF ShouldRotateLog(st.size, EntrySize(w.entry), maxSize) /\ st.file # NoLogFile
    THEN [st |-> SwitchLogFile(st), w |-> [pc |-> "readdir", entry |-> w.entry]]
    ELSE [st |-> st, w |-> [pc |-> "appendFile", entry |-> w.entry, name |-> st.file,
                            rotated |-> FALSE]]

\* A sort that puts the files written last first.
RECURSIVE SortNewestFirst(_, _)
SortNewestFirst(files, names) ==
  IF names = {} THEN <<>>
  ELSE LET newest == CHOOSE f \in names : \A g \in names : files[f].mtime >= files[g].mtime
       IN  <<newest>> \o SortNewestFirst(files, names \ {newest})

\* fileStats.sort by mtime, oldest first, of the files named.
RECURSIVE SortByMtime(_, _)
SortByMtime(files, names) ==
  IF names = {} THEN <<>>
  ELSE LET oldest == CHOOSE f \in names : \A g \in names : files[f].mtime <= files[g].mtime
       IN  <<oldest>> \o SortByMtime(files, names \ {oldest})

\* The state of the logger as the functions above take it.
LoggerState ==
  [dir |-> logDirectory, file |-> currentLogFile, size |-> currentLogFileSize,
   now |-> logClock]

\* The writers in flight with writer i replaced by w.
Resumed(i, w) == [writers EXCEPT ![i] = w]

\* The writers in flight without writer i, whose call resolved.
Resolved(i) == [j \in 1..(Len(writers) - 1) |-> IF j < i THEN writers[j] ELSE writers[j + 1]]

\* A logger method is called: writeLogEntry up to the first await of
\* writeToFile, which is initializeLogDirectory when no file is named yet.
LogCall(record) ==
  /\ logCalls' = Append(logCalls, record)
  /\ \E entry \in {EntryOf(record)} :
       IF logLevel = "none" \/ ~ShouldLog(logLevel, entry)
         THEN UNCHANGED <<writers, inMemoryLogs, logDirectory, currentLogFile,
                          currentLogFileSize, logClock>>
         ELSE /\ inMemoryLogs' = PushInMemory(inMemoryLogs, entry)
              /\ IF currentLogFile = NoLogFile
                   THEN /\ writers' = Append(writers, [pc |-> "mkdir", entry |-> entry])
                        /\ UNCHANGED <<logDirectory, currentLogFile, currentLogFileSize,
                                       logClock>>
                   ELSE \E m \in {RotationCheck(LoggerState, [entry |-> entry],
                                                maxLogFileSize)} :
                          /\ writers' = Append(writers, m.w)
                          /\ currentLogFile' = m.st.file
                          /\ currentLogFileSize' = m.st.size
                          /\ logClock' = m.st.now
                          /\ UNCHANGED logDirectory
  /\ UNCHANGED <<config, initInFlight, patternCache, fileWatchers, fsFiles, fsDirs,
                 call, ret, fsCalls, mutations, logged>>

\* The initializeLogDirectory a writeToFile awaited completes, and the
\* writeToFile goes on to its rotation check.
WriterInitialized(i) ==
  /\ i \in 1..Len(writers) /\ writers[i].pc = "mkdir"
  /\ \E m \in {RotationCheck(InitializeLogDirectory(LoggerState), writers[i],
                             maxLogFileSize)} :
       /\ writers' = Resumed(i, m.w)
       /\ logDirectory' = m.st.dir
       /\ currentLogFile' = m.st.file
       /\ currentLogFileSize' = m.st.size
       /\ logClock' = m.st.now
  /\ UNCHANGED <<config, inMemoryLogs, initInFlight, logCalls, patternCache,
                 fileWatchers, fsFiles, fsDirs, call, ret, fsCalls, mutations, logged>>

\* readdir of cleanupOldLogFiles completes: with no more than maxLogFiles log
\* files the cleanup and the rotation return and appendFile is called;
\* otherwise the files listed are stat'ed.
WriterListed(i) ==
  /\ i \in 1..Len(writers) /\ writers[i].pc = "readdir"
  /\ \E logFiles \in {{f \in DOMAIN logDirectory.files : IsLogFile(f)}} :
       writers' = Resumed(i,
         IF Cardinality(logFiles) <= maxLogFiles
           THEN [pc |-> "appendFile", entry |-> writers[i].entry, name |-> currentLogFile,
                 rotated |-> TRUE]
           ELSE [pc |-> "stat", entry |-> writers[i].entry, logFiles |-> logFiles])
  /\ UNCHANGED <<config, inMemoryLogs, logDirectory, currentLogFile, currentLogFileSize,
                 initInFlight, logClock, logCalls, patternCache, fileWatchers, fsFiles,
                 fsDirs, call, ret, fsCalls, mutations, logged>>

\* The stats of cleanupOldLogFiles complete: the files are sorted and the
\* oldest beyond maxLogFiles are to be unlinked; a file that has gone since
\* readdir fails its stat, which ends the cleanup.
WriterSorted(i) ==
  /\ i \in 1..Len(writers) /\ writers[i].pc = "stat"
  /\ \E w \in {writers[i]} :
       writers' = Resumed(i,
         IF ~(w.logFiles \subseteq DOMAIN logDirectory.files)
           THEN [pc |-> "appendFile", entry |-> w.entry, name |-> currentLogFile,
                 rotated |-> TRUE]
           ELSE [pc |-> "unlink", entry |-> w.entry,
                 filesToRemove |->
                   SubSeq(SortByMtime(logDirectory.files, w.logFiles),
                          1, Cardinality(w.logFiles) - maxLogFiles)])
  /\ UNCHANGED <<config, inMemoryLogs, logDirectory, currentLogFile, currentLogFileSize,
                 initInFlight, logClock, logCalls, patternCache, fileWatchers, fsFiles,
                 fsDirs, call, ret, fsCalls, mutations, logged>>

\* One unlink of cleanupOldLogFiles completes, removing the file or failing
\* (the failure is caught); after the last one appendFile is called.
WriterUnlinked(i, done) ==
  /\ i \in 1..Len(writers) /\ writers[i].pc = "unlink"
  /\ \E w \in {writers[i]} :
       /\ logDirectory' =
            IF done
              THEN [logDirectory EXCEPT !.files =
                      [g \in DOMAIN @ \ {w.filesToRemove[1]} |-> @[g]]]
              ELSE logDirectory
       /\ writers' = Resumed(i,
            IF Len(w.filesToRemove) = 1
              THEN [pc |-> "appendFile", entry |-> w.entry, name |-> currentLogFile,
                 rotated |-> TRUE]
              ELSE [pc |-> "unlink", entry |-> w.entry,
                    filesToRemove |-> Tail(w.filesToRemove)])
  /\ UNCHANGED <<config, inMemoryLogs, currentLogFile, currentLogFileSize,
                 initInFlight, logClock, logCalls, patternCache, fileWatchers, fsFiles,
                 fsDirs, call, ret, fsCalls, mutations, logged>>

\* appendFile completes: the line is in the file it was called with, the
\* size counter grows by the entry's size and the log call resolves.
WriterAppended(i) ==
  /\ i \in 1..Len(writers) /\ writers[i].pc = "appendFile"
  /\ \E w \in {writers[i]} :
       /\ logDirectory' = [logDirectory EXCEPT
                             !.files = AppendFile(@, w.name, w.entry, logClock + 1)]
       /\ currentLogFileSize' = currentLogFileSize + EntrySize(w.entry)
       /\ logClock' = logClock + 1
  /\ writers' = Resolved(i)
  /\ UNCHANGED <<config, inMemoryLogs, currentLogFile, initInFlight, logCalls,
                 patternCache, fileWatchers, fsFiles, fsDirs, call, ret, fsCalls,
                 mutations, logged>>

(***************************************************************************)
(* ComprehensiveErrorHandler.executeWithRetry                              *)
(***************************************************************************)
\* isTransientError: transientErrorCodes.includes(errorCode).
IsTransientError(errorCode) == errorCode \in {"EBUSY", "EAGAIN", "EWOULDBLOCK", "ETIMEDOUT"}

\* A classification that reports every error as a system error.
ClassifyAsSystemError(error, path) ==
  [type |-> "SYSTEM_ERROR", path |-> path, originalError |-> error]

\* ErrorHandler.classifySystemError: the type is read off the message (the
\* name of these errors is "Error").
ClassifySystemError(error, path) ==
  [type |-> IF Includes(error.message, "ENOENT") THEN "FILE_NOT_FOUND"
            ELSE IF Includes(error.message, "EACCES") \/ Includes(error.message, "EPERM")
              THEN "PERMISSION_DENIED"
            ELSE "SYSTEM_ERROR",
   path |-> path,
   originalError |-> error]

\* The errors the operation rejects with: a Node filesystem error carries its
\* code and begins its message with it; a plain Error has no code.
OperationErrors ==
  {[code |-> c, message |-> c \o ": operation failed"] :
     c \in {"EBUSY", "EAGAIN", "EWOULDBLOCK", "ETIMEDOUT", "ENOENT", "EACCES"}}
  \cup {[code |-> NULL, message |-> "boom"]}

\* The ways the promise of the operation settles.
OperationOutcomes ==
  {[ok |-> TRUE]} \cup {[ok |-> FALSE, error |-> e] : e \in OperationErrors}

\* The return after the loop: the last error, or 'Unknown error', classified.
\* lastError is <<>> for null and <<error>> otherwise.
RetryFailure(lastError, path) ==
  [success |-> FALSE,
   error |-> ClassifySystemError(
               IF lastError = <<>> THEN [code |-> NULL, message |-> "Unknown error"]
               ELSE lastError[1], path)]

\* executeWithRetry(operation, path, {maxRetries}) up to its first await: the
\* loop condition and, when it holds, the first invocation of the operation.
ExecuteWithRetry(path, maxRetries) ==
  /\ call = Idle
  /\ logged' = <<>>
  /\ IF 0 <= maxRetries
       THEN /\ call' = [phase |-> "operation", op |-> "executeWithRetry", path |-> path,
                        maxRetries |-> maxRetries, attempt |-> 0, lastError |-> <<>>,
                        settled |-> <<>>]
            /\ fsCalls' = <<[fn |-> "operation", path |-> path]>>
            /\ ret' = [op |-> "none"]
       ELSE /\ call' = Idle
            /\ fsCalls' = <<>>
            /\ ret' = [op |-> "executeWithRetry", arg |-> <<path, maxRetries>>,
                       value |-> RetryFailure(<<>>, path), settled |-> <<>>]
  /\ UNCHANGED <<config, logger, patternCache, fileWatchers, fsFiles, fsDirs, mutations>>

\* The promise of the operation settles: the return on success; in the catch
\* clause the break and the return after the loop, or attempt++, the awaited
\* logError and the start of the delay.
OperationSettled(outcome) ==
  /\ call.phase = "operation"
  /\ IF outcome.ok
       THEN /\ ret' = [op |-> "executeWithRetry", arg |-> <<call.path, call.maxRetries>>,
                       value |-> [success |-> TRUE, result |-> "done"],
                       settled |-> Append(call.settled, outcome)]
            /\ call' = Idle
            /\ UNCHANGED logged
       ELSE IF (outcome.error.code # NULL /\ ~IsTransientError(outcome.error.code))
                \/ call.attempt >= call.maxRetries
         THEN /\ ret' = [op |-> "executeWithRetry", arg |-> <<call.path, call.maxRetries>>,
                         value |-> RetryFailure(<<outcome.error>>, call.path),
                         settled |-> Append(call.settled, outcome)]
              /\ call' = Idle
              /\ UNCHANGED logged
         ELSE /\ call' = [call EXCEPT !.phase = "delay", !.attempt = @ + 1,
                                      !.lastError = <<outcome.error>>,
                                      !.settled = Append(@, outcome)]
              /\ logged' = Append(logged, [fn |-> "logError", error |-> outcome.error.message,
                                           context |-> "Retry attempt", path |-> call.path])
              /\ UNCHANGED ret
  /\ UNCHANGED <<config, logger, patternCache, fileWatchers, fsFiles, fsDirs, fsCalls,
                 mutations>>

\* The delay before a retry is over: the loop condition and the next
\* invocation of the operation, or the return after the loop.
RetryDelayElapsed ==
  /\ call.phase = "delay"
  /\ IF call.attempt <= call.maxRetries
       THEN /\ call' = [call EXCEPT !.phase = "operation"]
            /\ fsCalls' = Append(fsCalls, [fn |-> "operation", path |-> call.path])
            /\ UNCHANGED ret
       ELSE /\ call' = Idle
            /\ ret' = [op |-> "executeWithRetry", arg |-> <<call.path, call.maxRetries>>,
                       value |-> RetryFailure(call.lastError, call.path),
                       settled |-> call.settled]
            /\ UNCHANGED fsCalls
  /\ UNCHANGED <<config, logger, patternCache, fileWatchers, fsFiles, fsDirs, mutations,
                 logged>>

(***************************************************************************)
(* Specifications                                                          *)
(***************************************************************************)
Next ==
  \/ \E p \in Paths : ConcurrentIsProtected(p)
  \/ \E d \in fileWatchers, n \in WatchNames : Notify(d, n)
  \/ Dispose
  \/ \E p \in Paths : DeleteFile(p)
  \/ \E p \in Paths : DeleteDirectory(p)
  \/ \E ps \in SeqsUpTo(BatchPaths, MaxBatchLen) : DeleteBatch(ps)
  \/ BatchIssue
  \/ \E i \in 1..MaxBatchLen : SyscallExec(i)
  \/ Return
  \/ \E f \in ExternalFiles : ExternalRemove(f)

Spec == Init /\ [][Next]_vars

\* The protection engine and validatePath called on one path string, between
\* change notifications and dispose.
InitEngine == \E cfg \in EngineConfigs : \E p \in PathUniverse : InitWith(cfg, p)

NextEngine ==
  \/ IsProtectedCall(subject)
  \/ IsWithinAllowedDirectoriesCall(subject)
  \/ GetMatchingAllowedDirectoryCall(subject)
  \/ ValidatePathCall(subject)
  \/ \E d \in fileWatchers, n \in WatchNames : Notify(d, n)
  \/ Dispose
  \/ \E throwing \in SUBSET fileWatchers : DisposeCall(throwing)

SpecEngine == InitEngine /\ [][NextEngine]_vars

\* The engine's readers of the configuration called on one path string, the
\* callers changing the arrays they were handed.
ReaderSubjects == {"/tmp/proj/a.txt", "/tmp/proj/.git/", "/tmp/proj/.github", "/etc/passwd"}

InitReaders == \E cfg \in ReaderConfigs : \E p \in ReaderSubjects : InitWith(cfg, p)

NextReaders ==
  \/ IsProtectedCall(subject)
  \/ IsWithinAllowedDirectoriesCall(subject)
  \/ GetMatchingAllowedDirectoryCall(subject)
  \/ GetProtectedPatternsCall
  \/ ValidateAllowedDirectoriesCall
  \/ \E items \in IF ret.op \in ArrayOps THEN ArrayMutations(ret.value.items) ELSE {} :
       CallerMutates(items)
  \/ \E throwing \in SUBSET fileWatchers : DisposeCall(throwing)

SpecReaders == InitReaders /\ [][NextReaders]_vars

\* isProtected called on several path strings in turn, each with and without
\* a trailing slash, between change notifications and dispose.
CachePaths ==
  {"/tmp/proj/", "/tmp/proj/.git", "/tmp/proj/src.git", "/tmp/project/.git"}

WithSlash(p) == p \o "/"

NextCache ==
  \/ \E p \in CachePaths : IsProtectedCall(p) \/ IsProtectedCall(WithSlash(p))
  \/ \E d \in fileWatchers, n \in WatchNames : Notify(d, n)
  \/ Dispose

SpecCache == (\E cfg \in EngineConfigs : InitWith(cfg, "")) /\ [][NextCache]_vars

\* validateBatch called on batches of path strings, between isProtected
\* calls of other requests, change notifications and dispose.
NextValidation ==
  \/ \E ps \in SeqsUpTo(ValidationPaths, MaxBatchLen) : ValidateBatchCall(ps)
  \/ \E p \in Paths : ConcurrentIsProtected(p)
  \/ \E d \in fileWatchers, n \in WatchNames : Notify(d, n)
  \/ Dispose

SpecValidation == Init /\ [][NextValidation]_vars

\* deleteBatch called on batches of sibling files while another process
\* removes files.
NextBatch ==
  \/ \E ps \in SeqsUpTo(SiblingPaths, MaxBatchLen) : DeleteBatch(ps)
  \/ BatchIssue
  \/ \E i \in 1..MaxBatchLen : SyscallExec(i)
  \/ Return
  \/ \E f \in ExternalFiles : ExternalRemove(f)

SpecBatch == Init /\ [][NextBatch]_vars

\* deleteBatch called on the batches of each kind, with nothing else running:
\* every deleteFile of the batch is started, every filesystem call issued
\* resolves or fails, and the continuation after Promise.allSettled runs.
NextLifecycle ==
  \/ \E ps \in LifecycleBatches : DeleteBatch(ps)
  \/ BatchIssue
  \/ \E i \in 1..MaxBatchLen : SyscallExec(i)
  \/ Return

SpecLifecycle ==
  /\ Init /\ [][NextLifecycle]_vars
  /\ WF_vars(BatchIssue)
  /\ WF_vars(\E i \in 1..MaxBatchLen : SyscallExec(i))
  /\ WF_vars(Return)

\* deleteBatch called on batches that name directories, empty and not, and a
\* file.
NextBatchOfDirectories ==
  \/ \E ps \in SeqsUpTo(DirectoryPaths, MaxBatchLen) : DeleteBatch(ps)
  \/ BatchIssue
  \/ \E i \in 1..MaxBatchLen : SyscallExec(i)
  \/ Return

SpecBatchOfDirectories == Init /\ [][NextBatchOfDirectories]_vars

\* Delete requests handled end to end while another process removes files.
NextHandler ==
  \/ \E ps \in SeqsUpTo(SiblingPaths, MaxBatchLen) : HandleDelete(ps)
  \/ BatchIssue
  \/ \E i \in 1..MaxBatchLen : SyscallExec(i)
  \/ Return
  \/ HandleLog
  \/ \E f \in ExternalFiles : ExternalRemove(f)

SpecHandler == Init /\ [][NextHandler]_vars

\* The logger alone: any sequence of calls of its methods, under every level.
InitLogger == \E cfg \in LoggerConfigs : InitWith(cfg, "")

\* The log directory an earlier run of the server left behind: the file it
\* rotated away from and the file it was writing, each named and last
\* modified before this run began.
PreviousRunDirectory ==
  [exists |-> TRUE,
   files |-> [n \in {0 - 2, 0 - 1} |->
                [lines |-> <<EntryOf([fn |-> "logOperation", operation |-> "get_allowed",
                                      result |-> "success"])>>,
                 mtime |-> n]]]

\* That directory when other programs keep files in it too, both older than
\* every log file.
SharedDirectory ==
  [exists |-> TRUE,
   files |-> [n \in {0 - 102, 0 - 101, 0 - 2, 0 - 1} |->
                IF n < 0 - 100
                  THEN [lines |-> <<>>, mtime |-> n]
                  ELSE PreviousRunDirectory.files[n]]]

\* The logger of a server that logs into the shared directory.
InitShared ==
  \E cfg \in {c \in LoggerConfigs : c.logLevel = "info"} : InitOn(cfg, "", SharedDirectory)

\* The logger of a server that is started again on that directory.
InitRestart == \E cfg \in LoggerConfigs : InitOn(cfg, "", PreviousRunDirectory)

\* executeWithRetry on operations that settle in any of the ways above, under
\* every retry limit from none at all to MaxRetries.
NextRetry ==
  \/ \E n \in (0 - 1)..MaxRetries : ExecuteWithRetry("/tmp/proj/a.txt", n)
  \/ \E outcome \in OperationOutcomes : OperationSettled(outcome)
  \/ RetryDelayElapsed

SpecRetry == Init /\ [][NextRetry]_vars

\* The promise of the operation settles and the timer of the delay fires.
SpecRetryLive ==
  /\ SpecRetry
  /\ WF_vars(\E outcome \in OperationOutcomes : OperationSettled(outcome))
  /\ WF_vars(RetryDelayElapsed)

\* Array.prototype.slice(start) with no end: a negative start counts from the
\* end of the array, and -0 is 0, the start of the array.
Slice(arr, start) ==
  LET from == IF start < 0
                THEN (IF Len(arr) + start > 0 THEN Len(arr) + start ELSE 0)
                ELSE (IF start < Len(arr) THEN start ELSE Len(arr))
  IN  SubSeq(arr, from + 1, Len(arr))

\* Array.prototype.reverse.
Reverse(arr) == [i \in 1..Len(arr) |-> arr[Len(arr) + 1 - i]]

\* The limit of getRecentLogs when the caller passes none.
DefaultLimit == 100

\* LoggingService.getRecentLogs(limit): inMemoryLogs.slice(-limit).reverse().
GetRecentLogs(limit) == Reverse(Slice(inMemoryLogs, -limit))

GetRecentLogsCall(limit) ==
  /\ ret' = [op |-> "getRecentLogs", arg |-> limit, value |-> GetRecentLogs(limit)]
  /\ UNCHANGED <<config, logger, patternCache, fileWatchers, fsFiles, fsDirs, call,
                 fsCalls, mutations, logged>>

\* The logger may still be called.
LoggerOpen == Len(logCalls) < MaxLogCalls

NextLogger ==
  \/ /\ LoggerOpen
     /\ \E p \in {"/tmp/proj/a.txt"}, r \in {"success", "failed", "rejected"},
           reason \in {NULL, "DEBUG: dry run"} : LogDeletion(p, r, reason)
  \/ LoggerOpen /\ LogOperation("get_allowed", "success")
  \/ LoggerOpen /\ LogError("EACCES", "deleteFile", "/tmp/proj/a.txt")
  \/ LoggerOpen /\ LogDebug("started")
  \/ ConstructorInitialized

SpecLogger == InitLogger /\ [][NextLogger]_vars

SpecRestart == InitRestart /\ [][NextLogger]_vars

\* Log calls awaited one by one, beside the constructor's initialization.
NextSequential ==
  \/ /\ Len(logCalls) < MaxSequentialCalls /\ writers = <<>>
     /\ \E r \in {"success", "failed"}, reason \in {NULL, "in use"} :
          LogCall(IF reason = NULL
                    THEN [fn |-> "logDeletion", path |-> "/tmp/proj/a.txt", result |-> r]
                    ELSE [fn |-> "logDeletion", path |-> "/tmp/proj/a.txt", result |-> r,
                          reason |-> reason])
  \/ WriterInitialized(1)
  \/ WriterListed(1)
  \/ WriterSorted(1)
  \/ \E done \in BOOLEAN : WriterUnlinked(1, done)
  \/ WriterAppended(1)
  \/ ConstructorInitialized

SpecSequential == InitLogger /\ [][NextSequential]_vars

SpecCleanup == InitShared /\ [][NextSequential]_vars

\* Log calls issued without awaiting one another, as the deletion service
\* issues them: up to MaxWriters of them are in flight at once.
WritersOpen == Len(logCalls) < MaxWriterCalls /\ Len(writers) < MaxWriters

NextWriters ==
  \/ /\ WritersOpen
     /\ \E r \in {"success", "failed"} :
          LogCall([fn |-> "logDeletion", path |-> "/tmp/proj/a.txt", result |-> r])
  \/ WritersOpen /\ LogCall([fn |-> "logError", error |-> "EACCES",
                             context |-> "deleteFile", path |-> "/tmp/proj/a.txt"])
  \/ \E i \in 1..MaxWriters :
       \/ WriterInitialized(i)
       \/ WriterListed(i)
       \/ WriterSorted(i)
       \/ \E done \in BOOLEAN : WriterUnlinked(i, done)
       \/ WriterAppended(i)
  \/ ConstructorInitialized

SpecWriters == InitLogger /\ [][NextWriters]_vars

\* deleteDirectory on directories that are empty or not, while another
\* process removes a file and other requests ask isProtected.
NextDirectory ==
  \/ \E p \in DirectoryPaths : DeleteDirectory(p)
  \/ SyscallExec(1)
  \/ Return
  \/ \E p \in DirectoryPaths : ConcurrentIsProtected(p)
  \/ \E f \in ExternalFiles : ExternalRemove(f)

SpecDirectory == Init /\ [][NextDirectory]_vars

\* The deletion service beside an audit sink that fails at will.
NextSink ==
  \/ \E p \in SinkPaths : DeleteFile(p)
  \/ \E p \in SinkPaths : DeleteDirectory(p)
  \/ \E ps \in {<<"/tmp/proj/a.txt">>, <<"/tmp/proj/a.txt", "/tmp/proj/.git/config">>} :
       DeleteBatch(ps)
  \/ BatchIssue
  \/ \E i \in 1..MaxBatchLen : SyscallExec(i)
  \/ Return
  \/ /\ Len(logCalls) < MaxSinkCalls
     /\ \E fault \in SinkFaults, r \in {"success", "failed"} :
          WriteLogEntryUnder(fault, [fn |-> "logDeletion", path |-> "/tmp/proj/a.txt",
                                     result |-> r])
  \/ ConstructorInitialized
  \/ ConstructorInitFailed

SpecSink == Init /\ [][NextSink]_vars

\* The logger and a reader of its in-memory tail.
NextRecent ==
  \/ /\ LoggerOpen
     /\ \E p \in {"/tmp/proj/a.txt", "/tmp/proj/b.txt"}, r \in {"success", "rejected"} :
          LogDeletion(p, r, NULL)
  \/ LoggerOpen /\ LogDebug("started")
  \/ ConstructorInitialized
  \/ \E limit \in 0..MaxLimit \cup {DefaultLimit} : GetRecentLogsCall(limit)

SpecRecent == InitLogger /\ [][NextRecent]_vars

\* The logger under a long run: a client repeats a round of four calls, of
\* which level info drops one, until the in-memory tail has overflowed.
InitTail ==
  \E cfg \in {c \in LoggerConfigs : c.logLevel \in {"debug", "info"}} : InitWith(cfg, "")

\* The place of the next call in the round.
TailPhase == Len(logCalls) % 4

TailOpen == Len(logCalls) < MaxTailCalls

NextTail ==
  \/ TailOpen /\ TailPhase = 0 /\ LogDeletion("/tmp/proj/a.txt", "success", NULL)
  \/ TailOpen /\ TailPhase = 1 /\ LogDebug("started")
  \/ TailOpen /\ TailPhase = 2 /\ LogDeletion("/tmp/proj/a.txt", "rejected", NULL)
  \/ TailOpen /\ TailPhase = 3 /\ LogOperation("get_allowed", "success")
  \/ logCalls = <<>> /\ ConstructorInitialized

SpecTail == InitTail /\ [][NextTail]_vars

(***************************************************************************)
(* Properties.  The vocabulary below states them without the operators of  *)
(* the engine they are about.                                              *)
(***************************************************************************)
\* p names d itself or something below it: d, then "/", begin p.
Under(d, p) ==
  p = d \/ (Len(p) > Len(d) /\ SubSeq(p, 1, Len(d) + 1) = d \o "/")

\* p is equal to, or under, a configured allowed directory.
InScope(p) ==
  \E i \in 1..Len(allowedDirectories) : Under(allowedDirectories[i], p)

\* The indices of the allowed directories p is equal to or under.
Containing(p) == {i \in 1..Len(allowedDirectories) : Under(allowedDirectories[i], p)}

\* Some configured pattern matches the path string as isProtected matches it.
MatchesProtectedPattern(p) ==
  EvaluatePatterns(allowedDirectories, protectedPatterns, p)

\* C1: every filesystem object a deletion call removed lies inside one of the
\* allowed directory trees, the object being the one the filesystem resolves
\* the submitted path string to.
C1_RemovedObjectsInsideAllowedTrees ==
  \A m \in mutations : InScope(m.node)

\* C2: no path string that a configured protected pattern matches (by full
\* path, basename, relative path or segment) is handed to unlink or rmdir,
\* and none is removed, whatever isProtected calls, change notifications and
\* dispose come in between.
C2_NoProtectedPathRemoved ==
  /\ \A m \in mutations : ~MatchesProtectedPattern(m.path)
  /\ \A i \in 1..Len(fsCalls) :
       fsCalls[i].fn \in {"unlink", "rmdir"} => ~MatchesProtectedPattern(fsCalls[i].path)

\* The deletion of a file that a protected pattern matches was requested and
\* refused for that reason, and the file is still on disk.
C2_Witness ==
  /\ ret.op = "deleteFile"
  /\ MatchesProtectedPattern(ret.arg)
  /\ InScope(ret.arg)
  /\ ret.value = [success |-> FALSE, path |-> ret.arg, reason |-> ReasonProtected]
  /\ ret.arg \in fsFiles

\* The BatchDeletionResult of a batch cancelled by validation.
CancelledByValidation(validation) ==
  [deleted |-> <<>>, failed |-> <<>>,
   rejected |-> validation.invalidPaths \o validation.protectedPaths,
   cancelled |-> TRUE, reason |-> ReasonBatchInvalid]

\* No unlink or rmdir was issued by the current call and nothing was removed.
NothingIssued ==
  /\ mutations = {}
  /\ \A i \in 1..Len(fsCalls) : fsCalls[i].fn \notin {"unlink", "rmdir"}

\* C3 as stated: whenever validateBatch(paths).valid is false, deleteBatch
\* issues no unlink or rmdir and returns deleted = [], failed = [], cancelled,
\* the reason 'Batch contains protected or invalid paths' and rejected =
\* invalidPaths followed by protectedPaths.
C3_InvalidBatchCancelled_AsStated ==
  /\ (ret.op = "deleteBatch"
      /\ ~ValidateBatch(allowedDirectories, protectedPatterns, patternCache, ret.arg).valid)
     => /\ ret.value = CancelledByValidation(
                         ValidateBatch(allowedDirectories, protectedPatterns,
                                       patternCache, ret.arg))
        /\ NothingIssued
  /\ (call.phase # "idle" /\ call.op = "deleteBatch")
     => ValidateBatch(allowedDirectories, protectedPatterns, patternCache, call.paths).valid

\* C3: for a batch within the size limit, whenever validateBatch(paths).valid
\* is false, deleteBatch issues no unlink or rmdir, not even for the members
\* that passed validation, and returns deleted = [], failed = [], cancelled,
\* the reason 'Batch contains protected or invalid paths' and rejected =
\* invalidPaths followed by protectedPaths.
C3_InvalidBatchCancelled ==
  /\ (ret.op = "deleteBatch"
      /\ Len(ret.arg) <= maxBatchSize
      /\ ~ValidateBatch(allowedDirectories, protectedPatterns, patternCache, ret.arg).valid)
     => /\ ret.value = CancelledByValidation(
                         ValidateBatch(allowedDirectories, protectedPatterns,
                                       patternCache, ret.arg))
        /\ NothingIssued
  /\ (call.phase # "idle" /\ call.op = "deleteBatch")
     => ValidateBatch(allowedDirectories, protectedPatterns, patternCache, call.paths).valid

\* A batch within the limit was cancelled although one of its members passed
\* validation and is still on disk.
C3_Witness ==
  /\ ret.op = "deleteBatch"
  /\ Len(ret.arg) = 2
  /\ Len(ret.arg) <= maxBatchSize
  /\ "reason" \in DOMAIN ret.value
  /\ ret.value.reason = ReasonBatchInvalid
  /\ Len(ValidateBatch(allowedDirectories, protectedPatterns, patternCache,
                       ret.arg).validPaths) = 1
  /\ "/tmp/proj/a.txt" \in fsFiles

\* C4: deleteBatch is cancelled with the reason 'Batch size limit exceeded'
\* exactly when the batch is longer than maxBatchSize; then every input path
\* is in rejected, in order, cancelled is true, nothing is deleted or failed
\* and no filesystem call of any kind is made; a batch being processed is
\* never longer than maxBatchSize.
C4_BatchSizeLimit ==
  /\ ret.op = "deleteBatch"
     => /\ ("reason" \in DOMAIN ret.value /\ ret.value.reason = ReasonBatchSize)
           <=> Len(ret.arg) > maxBatchSize
        /\ Len(ret.arg) > maxBatchSize
           => /\ ret.value.cancelled
              /\ ret.value.deleted = <<>>
              /\ ret.value.failed = <<>>
              /\ Len(ret.value.rejected) = Len(ret.arg)
              /\ \A i \in 1..Len(ret.arg) : ret.value.rejected[i].path = ret.arg[i]
              /\ fsCalls = <<>>
              /\ mutations = {}
  /\ (call.phase # "idle" /\ call.op = "deleteBatch") => Len(call.paths) <= maxBatchSize

\* A batch one longer than the limit, made of deletable files only, was
\* cancelled for its size.
C4_Witness ==
  /\ ret.op = "deleteBatch"
  /\ Len(ret.arg) = maxBatchSize + 1
  /\ \A i \in 1..Len(ret.arg) : ret.arg[i] = "/tmp/proj/a.txt"
  /\ ret.value.reason = ReasonBatchSize

\* C5: for a path that is not equal to and not under any allowed directory,
\* isProtected returns true, whatever the patterns and the cache.
C5_OutsideIsProtected ==
  (ret.op = "isProtected" /\ ~InScope(ret.arg)) => ret.value = TRUE

\* isProtected returned true for an absolute path outside the allowed
\* directories that no configured pattern matches.
C5_Witness ==
  /\ ret.op = "isProtected"
  /\ ~InScope(ret.arg)
  /\ SubSeq(ret.arg, 1, 1) = "/"
  /\ ~MatchesProtectedPattern(ret.arg)
  /\ ret.value = TRUE

\* The allowed directory that contains p and is the longest to do so.
ContainingDirectory(p) ==
  allowedDirectories[CHOOSE i \in Containing(p) :
    \A j \in Containing(p) : Len(allowedDirectories[j]) <= Len(allowedDirectories[i])]

\* The pattern matches one of the four representations of the path: the full
\* path without its trailing slash, its basename, the path relative to the
\* allowed directory that contains it, or one of its segments.
MatchesRepresentation(pattern, p) ==
  \/ Minimatch(StripTrailingSlash(p), pattern, FALSE)
  \/ Minimatch(Basename(StripTrailingSlash(p)), pattern, FALSE)
  \/ Minimatch(PathRelative(ContainingDirectory(StripTrailingSlash(p)),
                            StripTrailingSlash(p)), pattern, FALSE)
  \/ \E seg \in {Split(StripTrailingSlash(p))[i] :
                   i \in 1..Len(Split(StripTrailingSlash(p)))} :
       Minimatch(seg, pattern, FALSE)

\* C6: for a path under an allowed directory for which no configured pattern
\* matches any of the four representations, isProtected returns false.
C6_UnmatchedIsNotProtected ==
  (/\ ret.op = "isProtected"
   /\ InScope(ret.arg)
   /\ \A i \in 1..Len(protectedPatterns) :
        ~MatchesRepresentation(protectedPatterns[i], ret.arg))
  => ret.value = FALSE

\* isProtected returned false for a path in scope whose segments only
\* resemble the patterns, and the decision is in the cache.
C6_Witness ==
  /\ ret.op = "isProtected"
  /\ ret.arg = "/tmp/proj/.git/.GIT"
  /\ protectedPatterns = <<".github", "*.git">>
  /\ ret.value = FALSE
  /\ ret.arg \in DOMAIN patternCache

\* A pattern without wildcard characters and without "/".
BareLiteral(pattern) ==
  \A i \in 1..Len(pattern) :
    SubSeq(pattern, i, i) \notin {"*", "?", "[", "]", "{", "}", "(", ")", "/"}

\* Some "/"-delimited segment of the path is the pattern, character for
\* character.
SomeSegmentEquals(p, pattern) ==
  \E i \in 1..Len(Split(p)) : Split(p)[i] = pattern

\* C7 as stated: with bare literal patterns, isProtected of a path inside an
\* allowed directory is true exactly when some segment of the path equals a
\* pattern.
C7_LiteralProtectsSegment_AsStated ==
  (/\ ret.op = "isProtected"
   /\ InScope(ret.arg)
   /\ \A i \in 1..Len(protectedPatterns) : BareLiteral(protectedPatterns[i]))
  => (ret.value <=> \E i \in 1..Len(protectedPatterns) :
                      SomeSegmentEquals(ret.arg, protectedPatterns[i]))

\* C7: with bare literal patterns that do not begin with "#" or "!",
\* isProtected of a path inside an allowed directory is true exactly when
\* some segment of the path equals a pattern, as a whole and case-sensitively.
C7_LiteralProtectsSegment ==
  (/\ ret.op = "isProtected"
   /\ InScope(ret.arg)
   /\ \A i \in 1..Len(protectedPatterns) :
        /\ BareLiteral(protectedPatterns[i])
        /\ SubSeq(protectedPatterns[i], 1, 1) \notin {"#", "!"})
  => (ret.value <=> \E i \in 1..Len(protectedPatterns) :
                      SomeSegmentEquals(ret.arg, protectedPatterns[i]))

\* isProtected returned true for a file inside a directory named by the
\* literal pattern, below a directory whose name only contains it.
C7_Witness ==
  /\ ret.op = "isProtected"
  /\ protectedPatterns = <<".git">>
  /\ ret.arg = "/tmp/proj/.git/.github"
  /\ ret.value = TRUE

\* C8: getMatchingAllowedDirectory returns the longest allowed directory the
\* path is equal to or under, whatever the order of the configuration, and
\* null when there is none.
C8_LongestAllowedDirectory ==
  ret.op = "getMatchingAllowedDirectory"
  => IF Containing(ret.arg) = {} THEN ret.value = NULL
     ELSE \E i \in Containing(ret.arg) :
            /\ ret.value = allowedDirectories[i]
            /\ \A j \in Containing(ret.arg) :
                 Len(allowedDirectories[j]) <= Len(allowedDirectories[i])

\* Two nested allowed directories contain the path, the shorter one is
\* configured first and the longer one was returned.
C8_Witness ==
  /\ ret.op = "getMatchingAllowedDirectory"
  /\ allowedDirectories = <<"/tmp", "/tmp/proj">>
  /\ Cardinality(Containing(ret.arg)) = 2
  /\ ret.value = "/tmp/proj"

\* C9: isWithinAllowedDirectories is true exactly when an allowed directory
\* equals the path or begins it up to a "/", and exactly when
\* getMatchingAllowedDirectory of the same path is not null.
C9_ScopeIsBoundaryAware ==
  ret.op = "isWithinAllowedDirectories"
  => /\ ret.value <=> InScope(ret.arg)
     /\ ret.value <=> GetMatchingAllowedDirectory(allowedDirectories, ret.arg) # NULL

\* A sibling whose name begins with the allowed directory's name was found
\* out of scope.
C9_Witness ==
  /\ ret.op = "isWithinAllowedDirectories"
  /\ allowedDirectories = <<"/tmp/proj">>
  /\ StartsWith(ret.arg, "/tmp/project/")
  /\ ret.value = FALSE

\* C10: validatePath returns the first failure of: not absolute, no matching
\* allowed directory, isProtected; otherwise it succeeds with the longest
\* matching allowed directory.  The protected-pattern reason is never given
\* to a path outside the allowed directories.
C10_ValidationOrder ==
  ret.op = "validatePath"
  => /\ ret.value =
          IF SubSeq(ret.arg, 1, 1) # "/"
            THEN [valid |-> FALSE, reason |-> ReasonNotAbsolute]
          ELSE IF ~InScope(ret.arg)
            THEN [valid |-> FALSE, reason |-> ReasonOutside]
          ELSE IF IsProtected(allowedDirectories, protectedPatterns, patternCache, ret.arg)
            THEN [valid |-> FALSE, reason |-> ReasonProtected]
          ELSE [valid |-> TRUE, matchedDirectory |-> ContainingDirectory(ret.arg)]
     /\ (~ret.value.valid /\ ret.value.reason = ReasonProtected) => InScope(ret.arg)

\* An absolute path outside the allowed directories that a protected pattern
\* matches was refused as being outside.
C10_Witness ==
  /\ ret.op = "validatePath"
  /\ SubSeq(ret.arg, 1, 1) = "/"
  /\ ~InScope(ret.arg)
  /\ MatchesProtectedPattern(ret.arg)
  /\ ret.value = [valid |-> FALSE, reason |-> ReasonOutside]

\* The path member of every entry of a list of refusals, in order.
PathsOf(entries) == [i \in DOMAIN entries |-> entries[i].path]

\* The path string begins with "/".
LeadingSlash(p) == Len(p) > 0 /\ SubSeq(p, 1, 1) = "/"

\* A path string validation accepts: absolute, in scope, matched by no pattern.
Acceptable(p) == LeadingSlash(p) /\ InScope(p) /\ ~MatchesProtectedPattern(p)

\* A path string validation refuses for a protected pattern, after it passed
\* the absolute and scope checks.
RefusedAsProtected(p) == LeadingSlash(p) /\ InScope(p) /\ MatchesProtectedPattern(p)

\* A path string validation refuses as relative or out of scope.
RefusedAsInvalid(p) == ~LeadingSlash(p) \/ ~InScope(p)

\* C11: validateBatch(paths) partitions its input: validPaths holds exactly
\* the accepted members, protectedPaths the members refused for a protected
\* pattern and invalidPaths the relative and out-of-scope members, each in
\* input order (so every position is in exactly one list), the three lengths
\* sum to paths.length, and valid is true exactly when invalidPaths and
\* protectedPaths are both empty.
C11_ValidateBatchPartitions ==
  ret.op = "validateBatch"
  => /\ ret.value.validPaths = SelectSeq(ret.arg, Acceptable)
     /\ PathsOf(ret.value.protectedPaths) = SelectSeq(ret.arg, RefusedAsProtected)
     /\ PathsOf(ret.value.invalidPaths) = SelectSeq(ret.arg, RefusedAsInvalid)
     /\ Len(ret.value.validPaths) + Len(ret.value.invalidPaths)
          + Len(ret.value.protectedPaths) = Len(ret.arg)
     /\ ret.value.valid
          <=> (ret.value.invalidPaths = <<>> /\ ret.value.protectedPaths = <<>>)

\* validateBatch returned for a batch of an out-of-scope path followed by a
\* protected one: one entry in invalidPaths, one in protectedPaths, not valid.
C11_Witness ==
  /\ ret.op = "validateBatch"
  /\ ret.arg = <<"/etc/passwd", "/tmp/proj/.git/config">>
  /\ PathsOf(ret.value.invalidPaths) = <<"/etc/passwd">>
  /\ PathsOf(ret.value.protectedPaths) = <<"/tmp/proj/.git/config">>
  /\ ~ret.value.valid

\* The set of members of a sequence.
Range(seq) == {seq[i] : i \in DOMAIN seq}

\* The members of seq at the positions in S, in the order of seq.
Pick(seq, S) ==
  LET idx == SelectSeq([i \in 1..Len(seq) |-> i], LAMBDA i : i \in S)
  IN  [k \in 1..Len(idx) |-> seq[idx[k]]]

\* How many calls of fn on path p the current service call has made.
CountCalls(fn, p) ==
  Cardinality({i \in 1..Len(fsCalls) : fsCalls[i] = [fn |-> fn, path |-> p]})

\* How many positions of seq hold x.
Occurrences(seq, x) == Cardinality({i \in 1..Len(seq) : seq[i] = x})

\* The last call returned was deleteBatch on a batch within the size limit
\* whose members all pass validation.
ValidBatchReturned ==
  /\ ret.op = "deleteBatch"
  /\ Len(ret.arg) <= maxBatchSize
  /\ \A i \in 1..Len(ret.arg) : Acceptable(ret.arg[i])

C13_CancelledMeansUntouched ==
  (ret.op = "deleteBatch" /\ "cancelled" \in DOMAIN ret.value /\ ret.value.cancelled)
  => /\ ret.value.deleted = <<>>
     /\ ret.value.failed = <<>>
     /\ mutations = {}
     /\ \A i \in 1..Len(fsCalls) : fsCalls[i].fn \notin {"unlink", "rmdir"}

\* A batch with a deletable member was cancelled, and that member is still on
\* disk.
C13_Witness ==
  /\ ret.op = "deleteBatch"
  /\ "cancelled" \in DOMAIN ret.value
  /\ ret.value.cancelled
  /\ \E i \in 1..Len(ret.arg) : ret.arg[i] = "/tmp/proj/a.txt"
  /\ "/tmp/proj/a.txt" \in fsFiles

\* The text of the error for an absent target.
NotFoundText(op) ==
  IF op = "deleteDirectory" THEN "Directory not found" ELSE "File not found"

\* The current service call issued no unlink and no rmdir.
NoRemovalIssued ==
  \A i \in 1..Len(fsCalls) : fsCalls[i].fn \notin {"unlink", "rmdir"}

\* C14: every DeletionResult of deleteFile and deleteDirectory has one of
\* three shapes: success with neither error nor reason; failure with a reason
\* and no error, and then no filesystem call was made at all; failure with an
\* error and no reason.  A path that passes validation never gets a reason;
\* when its target is absent at the existence check the error is the 'not
\* found' text and no unlink or rmdir was issued.
C14_ThreeResultShapes ==
  ret.op \in {"deleteFile", "deleteDirectory"}
  => /\ \/ ret.value.success /\ DOMAIN ret.value = {"success", "path"}
        \/ ~ret.value.success /\ DOMAIN ret.value = {"success", "path", "reason"}
        \/ ~ret.value.success /\ DOMAIN ret.value = {"success", "path", "error"}
     /\ "reason" \in DOMAIN ret.value <=> ~Acceptable(ret.arg)
     /\ "reason" \in DOMAIN ret.value => fsCalls = <<>> /\ mutations = {}
     /\ (Acceptable(ret.arg) /\ NoRemovalIssued)
        <=> ("error" \in DOMAIN ret.value /\ ret.value.error = NotFoundText(ret.op))
     /\ ret.value.success <=> mutations # {}

\* deleteFile returned for a valid path whose file another process had
\* removed: the 'not found' error, after the existence check only.
C14_Witness ==
  /\ ret.op = "deleteFile"
  /\ ret.arg = "/tmp/proj/a.txt"
  /\ ret.value = [success |-> FALSE, path |-> ret.arg, error |-> "File not found"]
  /\ fsCalls = <<[fn |-> "existsSync", path |-> ret.arg]>>
  /\ ret.arg \notin fsFiles

C16_CacheCoherence ==
  /\ \A k \in DOMAIN patternCache : patternCache[k] = MatchesProtectedPattern(k)
  /\ ret.op = "isProtected"
     => ret.value = (~InScope(ret.arg) \/ MatchesProtectedPattern(ret.arg))

\* After a dispose, isProtected was called on a protected path in scope: it
\* returned true and left the decision in the cache.
C16_Witness ==
  /\ fileWatchers = {}
  /\ ret.op = "isProtected"
  /\ InScope(ret.arg)
  /\ ret.value
  /\ ret.arg \in DOMAIN patternCache
  /\ patternCache[ret.arg]

\* C17: when deleteFile or deleteDirectory returns, it has handed exactly one
\* record to the logger: logDeletion 'rejected' with a rejection, logDeletion
\* 'failed' with the 'not found' error, logDeletion 'success' with a success,
\* and one logError with any other error.
C17_OneRecordPerSingleDeletion ==
  ret.op \in {"deleteFile", "deleteDirectory"}
  => /\ Len(logged) = 1
     /\ "reason" \in DOMAIN ret.value
        => logged[1] = [fn |-> "logDeletion", path |-> ret.arg, result |-> "rejected"]
     /\ ("error" \in DOMAIN ret.value /\ ret.value.error = NotFoundText(ret.op))
        => logged[1] = [fn |-> "logDeletion", path |-> ret.arg, result |-> "failed"]
     /\ ret.value.success
        => logged[1] = [fn |-> "logDeletion", path |-> ret.arg, result |-> "success"]
     /\ ("error" \in DOMAIN ret.value /\ ret.value.error # NotFoundText(ret.op))
        => /\ logged[1].fn = "logError"
           /\ logged[1].error = ret.value.error
           /\ logged[1].path = ret.arg

\* deleteDirectory returned after rmdir threw on a path that names a file:
\* one error record went to the logger.
C17_Witness ==
  /\ ret.op = "deleteDirectory"
  /\ ret.value = [success |-> FALSE, path |-> ret.arg, error |-> "ENOTDIR"]
  /\ ret.arg \in fsFiles
  /\ Len(logged) = 1
  /\ logged[1].fn = "logError"

\* C18: when a delete request for a batch has been handled, every path of the
\* batch is covered by a record handed to the logger, also when the batch was
\* cancelled for its size or by validation, and also for the members of a
\* cancelled batch that were themselves valid.
C18_EveryBatchPathAudited ==
  (ret.op = "delete" /\ Len(ret.arg) # 1)
  => \A p \in Range(ret.arg) : \E i \in 1..Len(logged) : logged[i].path = p

\* The records handed to the logger that it writes at the given minimum level.
Recorded(level) ==
  SelectSeq(logged, LAMBDA r : level # "none" /\ ShouldLog(level, EntryOf(r)))

\* C19: when a delete request has been handled end to end, with the logger at
\* level info or lower, the audit log has gained exactly one entry for each
\* path operation that was attempted (each position of a request that was not
\* cancelled), and never two for the same attempt.
C19_OneEntryPerAttempt ==
  (ret.op = "delete" /\ "cancelled" \notin DOMAIN ret.value
   /\ logLevel \in {"debug", "info"})
  => \A p \in Range(ret.arg) :
       Cardinality({i \in 1..Len(Recorded(logLevel)) : Recorded(logLevel)[i].path = p})
         = Occurrences(ret.arg, p)

\* The rank of a level name: debug < info < warn < error.
LevelRank(level) ==
  CASE level = "debug" -> 0 [] level = "info" -> 1 [] level = "warn" -> 2
    [] level = "error" -> 3

\* The level of an entry: failed -> error; else rejected -> warn; else a
\* reason tagged 'DEBUG:' -> debug; else info.
LevelOfEntry(entry) ==
  IF entry.result = "failed" THEN "error"
  ELSE IF entry.result = "rejected" THEN "warn"
  ELSE IF Len(entry.reason) >= 6 /\ SubSeq(entry.reason, 1, 6) = "DEBUG:" THEN "debug"
  ELSE "info"

\* The call is one the logger is to record under the configured minimum.
ToBeRecorded(record) ==
  /\ logLevel # "none"
  /\ LevelRank(LevelOfEntry(EntryOf(record))) >= LevelRank(logLevel)

\* All lines of all files of the log directory.
LinesOnDisk ==
  UNION {Range(logDirectory.files[f].lines) : f \in DOMAIN logDirectory.files}

\* C20: the in-memory tail holds exactly the entries of the calls whose level
\* (failed -> error, rejected -> warn, 'DEBUG:' reason -> debug, else info) is
\* at or above the configured minimum, in call order, and none when the
\* minimum is 'none'; every line on disk is such an entry and the entry of
\* such a call is the last line of a log file when the call is over; with
\* 'none' the log directory is never created and no file is named or written.
C20_LevelFilter ==
  /\ inMemoryLogs = [i \in 1..Len(SelectSeq(logCalls, ToBeRecorded)) |->
                       EntryOf(SelectSeq(logCalls, ToBeRecorded)[i])]
  /\ LinesOnDisk \subseteq {EntryOf(logCalls[i]) :
                             i \in {j \in 1..Len(logCalls) : ToBeRecorded(logCalls[j])}}
  /\ (Len(logCalls) > 0 /\ ToBeRecorded(logCalls[Len(logCalls)]))
     => \E f \in DOMAIN logDirectory.files :
          logDirectory.files[f].lines[Len(logDirectory.files[f].lines)]
            = EntryOf(logCalls[Len(logCalls)])
  /\ logLevel = "none"
     => /\ inMemoryLogs = <<>>
        /\ logDirectory = [exists |-> FALSE, files |-> <<>>]
        /\ currentLogFile = 0

\* At level warn a success was logged and then a rejection: only the
\* rejection is in memory and on disk.
C20_Witness ==
  /\ logLevel = "warn"
  /\ Len(logCalls) = 2
  /\ logCalls[1].result = "success"
  /\ logCalls[2].result = "rejected"
  /\ Len(inMemoryLogs) = 1
  /\ inMemoryLogs[1].result = "rejected"
  /\ \A e \in LinesOnDisk : e.result = "rejected"
  /\ LinesOnDisk # {}

\* The entries of the calls the logger is to record, in call order.
RetainedEntries ==
  LET retained == SelectSeq(logCalls, ToBeRecorded)
  IN  [i \in 1..Len(retained) |-> EntryOf(retained[i])]

\* The last n members of a sequence, or all of it when it is shorter.
LastOf(seq, n) ==
  IF Len(seq) <= n THEN seq ELSE SubSeq(seq, Len(seq) - n + 1, Len(seq))

\* C21: after any sequence of log calls the in-memory tail holds at most 1000
\* entries: the most recent 1000 of the entries that passed the level filter
\* (all of them while there are fewer), in the order they were logged, so the
\* oldest are evicted first.
C21_InMemoryTail ==
  /\ Len(inMemoryLogs) <= 1000
  /\ inMemoryLogs = LastOf(RetainedEntries, 1000)

\* More than 1000 entries have passed the filter: the tail holds 1000 and no
\* longer begins with the first entry logged.
C21_Witness ==
  /\ Len(RetainedEntries) = 1002
  /\ Len(inMemoryLogs) = 1000
  /\ inMemoryLogs[1] = RetainedEntries[3]
  /\ inMemoryLogs[1] # RetainedEntries[1]
  /\ inMemoryLogs[1000] = RetainedEntries[1002]

\* The smaller of two numbers.
Least(a, b) == IF a <= b THEN a ELSE b

\* What the latest step returned, when that step was a call of getRecentLogs
\* (the only step that sets such a result and leaves the logger as it was).
RecentLogsReturned == ret'.op = "getRecentLogs" /\ UNCHANGED logger

\* C22: for every limit >= 0, getRecentLogs(limit) returns min(limit, number
\* of retained entries) entries, the most recent first; getRecentLogs(0)
\* returns no entry.
C22_RecentLogs ==
  [][RecentLogsReturned =>
       /\ Len(ret'.value) = Least(ret'.arg, Len(inMemoryLogs))
       /\ \A i \in 1..Len(ret'.value) :
            ret'.value[i] = inMemoryLogs[Len(inMemoryLogs) + 1 - i]
       /\ (ret'.arg = 0 => ret'.value = <<>>)]_vars
\* The step is a log call whose entry the logger is to record.
RecordingStep ==
  /\ logCalls' # logCalls
  /\ ToBeRecorded(logCalls'[Len(logCalls')])

\* The entry of the call the step made.
LatestEntry == EntryOf(logCalls'[Len(logCalls')])

\* The active file is known and cannot take the entry within the size limit.
RotationDue ==
  /\ currentLogFile # NoLogFile
  /\ currentLogFileSize + EntrySize(LatestEntry) > maxLogFileSize

\* The lines of a log file of the directory, none when there is no such file.
LinesOf(dir, name) == IF name \in DOMAIN dir.files THEN dir.files[name].lines ELSE <<>>

\* When a rotation is due the entry goes to a file named anew, and the file
\* that was active keeps the lines it had.
RotatesBeforeAppending ==
  (RecordingStep /\ RotationDue) =>
     /\ currentLogFile' # currentLogFile
     /\ currentLogFile' \notin DOMAIN logDirectory.files
     /\ LinesOf(logDirectory', currentLogFile') = <<LatestEntry>>
     /\ currentLogFile \in DOMAIN logDirectory'.files =>
          LinesOf(logDirectory', currentLogFile) = LinesOf(logDirectory, currentLogFile)

\* A recording step adds its entry to one file and leaves the lines of every
\* other file that stays as they were.
AppendsToOneFile ==
  RecordingStep =>
     /\ LinesOf(logDirectory', currentLogFile')
          = Append(LinesOf(logDirectory, currentLogFile'), LatestEntry)
     /\ \A name \in DOMAIN logDirectory'.files \ {currentLogFile'} :
          /\ name \in DOMAIN logDirectory.files
          /\ LinesOf(logDirectory', name) = LinesOf(logDirectory, name)

\* Files leave the directory only in a rotation that found more than
\* maxLogFiles of them.
OnlyRetentionRemoves ==
  (DOMAIN logDirectory.files \ DOMAIN logDirectory'.files # {}) =>
     /\ RecordingStep /\ RotationDue
     /\ Cardinality(DOMAIN logDirectory.files) > maxLogFiles

\* The number of lines the log files hold together.
RECURSIVE LineCount(_, _)
LineCount(dir, names) ==
  IF names = {} THEN 0
  ELSE LET name == CHOOSE n \in names : TRUE
       IN  Len(dir.files[name].lines) + LineCount(dir, names \ {name})

\* Every entry recorded is a line of a file, and the files hold no more lines
\* than there are entries recorded.
EveryEntryInOneFile ==
  /\ \A i \in 1..Len(RetainedEntries) :
       \E name \in DOMAIN logDirectory.files :
         \E k \in 1..Len(logDirectory.files[name].lines) :
           logDirectory.files[name].lines[k] = RetainedEntries[i]
  /\ LineCount(logDirectory, DOMAIN logDirectory.files) = Len(RetainedEntries)

\* C23 as stated: when the tracked size plus the size of the entry would
\* exceed the maximum the logger rotates before it appends, the entry goes to
\* the newly named file and never to the old one, and every recorded entry is
\* in exactly one file.
C23_RotationLosesNoEntry ==
  /\ [][RotatesBeforeAppending /\ AppendsToOneFile]_vars
  /\ []EveryEntryInOneFile

\* C23 amended: the logger rotates before it appends and the entry goes to the
\* newly named file; each entry is appended to exactly one file and stays
\* there as long as the file does; a file leaves the directory only when a
\* rotation finds more than maxLogFiles files and retention deletes it.
C23_RotationBeforeAppend ==
  [][RotatesBeforeAppending /\ AppendsToOneFile /\ OnlyRetentionRemoves]_vars

\* A rotation has taken place: the active file holds the one entry that did
\* not fit, and the file written before it still holds its own.
C23_Witness ==
  /\ Len(RetainedEntries) = 2
  /\ currentLogFile \in DOMAIN logDirectory.files
  /\ logDirectory.files[currentLogFile].lines = <<RetainedEntries[2]>>
  /\ currentLogFileSize = EntrySize(RetainedEntries[2])
  /\ \E old \in DOMAIN logDirectory.files \ {currentLogFile} :
       /\ logDirectory.files[old].lines = <<RetainedEntries[1]>>
       /\ EntrySize(RetainedEntries[1]) + EntrySize(RetainedEntries[2]) > maxLogFileSize
  /\ ~initInFlight

\* C24: after any sequence of log calls in which the retention deletions
\* succeed, the number of log files in the log directory never exceeds
\* maxLogFiles + 1 (the files the cleanup keeps and the active file created
\* after it).
C24_RetainedFiles ==
  Cardinality(DOMAIN logDirectory.files) <= maxLogFiles + 1

\* Every call the audit sink received so far has resolved.
EveryLogCallResolved ==
  \A i \in 1..Len(logCalls) :
    "settled" \in DOMAIN logCalls[i] => logCalls[i].settled = "resolved"

\* A step of the logger, working or failing, leaves the deletion service, its
\* results and the filesystem it deletes from as they were.
SinkStepsLeaveService ==
  (logCalls' # logCalls \/ initInFlight' # initInFlight)
    => UNCHANGED <<call, ret, fsFiles, fsDirs, fsCalls, mutations, patternCache>>

\* The result of a deletion says what validation and the filesystem did.
ResultFollowsDisk ==
  /\ ret.op \in {"deleteFile", "deleteDirectory"} =>
       /\ ret.value.success <=> mutations # {}
       /\ "reason" \in DOMAIN ret.value <=> ~Acceptable(ret.arg)
  /\ ret.op = "deleteBatch" =>
       /\ "cancelled" \in DOMAIN ret.value
            <=> (Len(ret.arg) > maxBatchSize \/ \E p \in Range(ret.arg) : ~Acceptable(p))
       /\ \A p \in Range(ret.arg) :
            p \in Range(ret.value.deleted) <=> \E m \in mutations : m.path = p

\* C25: no failure of the audit sink (creating the log directory, appending,
\* rotating, deleting an old file) propagates out of a logger method: every
\* log call resolves, and the results and filesystem mutations of deleteFile,
\* deleteDirectory and deleteBatch are the same whether the logger works or
\* fails.
C25_SinkFailuresContained ==
  /\ []EveryLogCallResolved
  /\ [][SinkStepsLeaveService]_vars
  /\ []ResultFollowsDisk

\* The sink failed while a deletion succeeded: a call of the logger resolved
\* although its entry, kept in memory, reached no file, and deleteFile
\* returned success for the file it removed.
C25_Witness ==
  /\ Len(logCalls) = 1
  /\ logCalls[1].settled = "resolved"
  /\ Len(inMemoryLogs) = 1
  /\ \A name \in DOMAIN logDirectory.files : logDirectory.files[name].lines = <<>>
  /\ ret.op = "deleteFile"
  /\ ret.value = [success |-> TRUE, path |-> "/tmp/proj/a.txt"]
  /\ "/tmp/proj/a.txt" \notin fsFiles

\* How the promises of the operation settled in the executeWithRetry call in
\* progress, or in the one that returned last.
Settlements ==
  IF call # Idle /\ call.op = "executeWithRetry" THEN call.settled
  ELSE IF ret.op = "executeWithRetry" THEN ret.settled
  ELSE <<>>

\* Invocations of the operation in that call.
Invocations == Len(SelectSeq(fsCalls, LAMBDA c : c.fn = "operation"))

\* The code of a failure names a condition that may pass.
TransientFailure(outcome) ==
  /\ ~outcome.ok
  /\ outcome.error.code \in {"EBUSY", "EAGAIN", "EWOULDBLOCK", "ETIMEDOUT"}

\* C26: executeWithRetry retries only after a failure of the transient class
\* (EBUSY, EAGAIN, EWOULDBLOCK, ETIMEDOUT); any other failure, an error
\* without a code included, returns failure after a single invocation.
C26_RetryOnlyTransient ==
  \A i \in 1..Len(Settlements) :
    i < Invocations => TransientFailure(Settlements[i])

\* executeWithRetry is in progress.
RetryInProgress == call # Idle /\ call.op = "executeWithRetry"

\* executeWithRetry has returned and nothing was called since.
RetryReturned == call = Idle /\ ret.op = "executeWithRetry"

\* The type an error is classified under, by the code its message begins with.
TypeOfError(error) ==
  IF error.code = "ENOENT" THEN "FILE_NOT_FOUND"
  ELSE IF error.code \in {"EACCES", "EPERM"} THEN "PERMISSION_DENIED"
  ELSE "SYSTEM_ERROR"

\* The operation is invoked at most maxRetries + 1 times.
InvocationsBounded ==
  /\ RetryInProgress => Invocations <= call.maxRetries + 1
  /\ RetryReturned => Invocations <= ret.arg[2] + 1

\* The call returns success at the first attempt that succeeds, and otherwise
\* a failure that carries the last error, classified.
RetryResult ==
  RetryReturned =>
    /\ Len(ret.settled) = Invocations
    /\ \A i \in 1..(Len(ret.settled) - 1) : ~ret.settled[i].ok
    /\ ret.value.success <=> (ret.settled # <<>> /\ ret.settled[Len(ret.settled)].ok)
    /\ ~ret.value.success =>
         /\ DOMAIN ret.value = {"success", "error"}
         /\ IF ret.settled = <<>>
              THEN /\ ret.value.error.type = "SYSTEM_ERROR"
                   /\ ret.value.error.originalError.message = "Unknown error"
              ELSE /\ ret.value.error.originalError = ret.settled[Len(ret.settled)].error
                   /\ ret.value.error.type = TypeOfError(ret.settled[Len(ret.settled)].error)

\* C27: executeWithRetry terminates for every operation and every retry limit:
\* it invokes the operation at most maxRetries + 1 times, returns success at
\* the first attempt that succeeds and, when every attempt fails, returns
\* success = false with the classified last error instead of throwing.
C27_RetryTerminates ==
  /\ []InvocationsBounded
  /\ []RetryResult
  /\ RetryInProgress ~> RetryReturned

\* Every attempt failed busy: the operation was invoked maxRetries + 1 times
\* and the call returned the last error as a system error.
C27_Witness ==
  /\ RetryReturned
  /\ ret.arg[2] = 2
  /\ Invocations = 3
  /\ ~ret.value.success
  /\ Len(ret.settled) = 3
  /\ \A i \in 1..3 : ret.settled[i].error.code = "EBUSY"
  /\ ret.value.error.type = "SYSTEM_ERROR"

\* What the three queries of the engine return for a path under a given cache.
EngineAnswers(cache, p) ==
  <<IsProtected(allowedDirectories, protectedPatterns, cache, p),
    IsWithinAllowedDirectories(allowedDirectories, p),
    GetMatchingAllowedDirectory(allowedDirectories, p)>>

\* dispose has returned normally and left neither a watcher nor a cache entry.
DisposedClean ==
  ret.op = "dispose" =>
    /\ ret.value = "returned"
    /\ fileWatchers = {}
    /\ DOMAIN patternCache = {}

\* A dispose step changes no answer of the engine, and on an engine already
\* disposed it changes nothing at all.
DisposeKeepsAnswers ==
  ret'.op = "dispose" =>
    /\ EngineAnswers(patternCache', subject) = EngineAnswers(patternCache, subject)
    /\ (fileWatchers = {} /\ DOMAIN patternCache = {})
         => (fileWatchers' = {} /\ DOMAIN patternCache' = {})

\* After dispose as before it, isProtected answers by scope and patterns alone.
AnswersWithoutWatchers ==
  (ret.op = "isProtected" /\ fileWatchers = {}) =>
     ret.value = (~InScope(ret.arg) \/ MatchesProtectedPattern(ret.arg))

\* C28: dispose never throws, not even when closing a watcher throws; it
\* leaves the engine with no file watchers and an empty cache, is idempotent,
\* and the results of later isProtected, isWithinAllowedDirectories and
\* getMatchingAllowedDirectory calls are the same as before dispose.
C28_DisposeIsSafe ==
  /\ []DisposedClean
  /\ [][DisposeKeepsAnswers]_vars
  /\ []AnswersWithoutWatchers

\* dispose returned although the close of its watcher threw, on an engine
\* whose subject is a protected path in scope.
C28_Witness ==
  /\ ret.op = "dispose"
  /\ ret.arg # {}
  /\ ret.value = "returned"
  /\ fileWatchers = {}
  /\ DOMAIN patternCache = {}
  /\ InScope(subject)
  /\ MatchesProtectedPattern(subject)

\* The directory holds a file or a directory.
Populated(files, dirs, d) == \E n \in files \cup dirs : n # d /\ Under(d, n)

\* A step removes a directory only when nothing is in it, and a call of
\* deleteDirectory removes no file.
OnlyEmptyDirectoriesGo ==
  /\ \A d \in fsDirs \ fsDirs' : ~Populated(fsFiles, fsDirs, d)
  /\ fsFiles' # fsFiles => mutations' = mutations

\* What deleteDirectory removed is the directory a valid path names, and what
\* it returns for a valid directory that still holds something is a failure
\* with an error and without a reason, the directory being where it was.
DirectoryResult ==
  ret.op = "deleteDirectory" =>
    /\ \A m \in mutations :
         /\ m.fn = "rmdir" /\ m.path = ret.arg /\ Acceptable(ret.arg)
         /\ m.node \in InitialDirs /\ m.node \notin fsDirs
         /\ ret.value = [success |-> TRUE, path |-> ret.arg]
    /\ (Acceptable(ret.arg) /\ ret.arg \in fsDirs /\ Populated(fsFiles, fsDirs, ret.arg)) =>
         /\ ~ret.value.success
         /\ DOMAIN ret.value = {"success", "path", "error"}
         /\ ret.value.error \in {"ENOTEMPTY", "EACCES"}
         /\ mutations = {}

\* C29: deleteDirectory removes only a valid empty directory; for a valid
\* directory that is not empty it returns success = false with error set (a
\* failure, not a rejection), and the directory and its contents remain.
C29_OnlyEmptyDirectoryRemoved ==
  /\ [][OnlyEmptyDirectoriesGo]_vars
  /\ []DirectoryResult

\* deleteDirectory was called on the allowed directory, which holds files:
\* rmdir was issued and refused, and the directory and its files are on disk.
C29_Witness ==
  /\ ret.op = "deleteDirectory"
  /\ ret.arg = "/tmp/proj"
  /\ ret.value = [success |-> FALSE, path |-> "/tmp/proj", error |-> "ENOTEMPTY"]
  /\ fsCalls = <<[fn |-> "existsSync", path |-> "/tmp/proj"],
                 [fn |-> "rmdir", path |-> "/tmp/proj"]>>
  /\ "/tmp/proj" \in fsDirs
  /\ "/tmp/proj/b.txt" \in fsFiles
  /\ "/tmp/proj/empty" \notin fsDirs

\* deleteBatch is past validation and has not returned.
BatchExecuting == call # Idle /\ call.op = "deleteBatch"

\* deleteBatch has returned and nothing was called since.
BatchReturned == call = Idle /\ ret.op = "deleteBatch"

\* The batch is within the size limit and every member passes validation.
BatchCleared(paths) ==
  /\ Len(paths) <= maxBatchSize
  /\ \A i \in 1..Len(paths) : Acceptable(paths[i])

\* The steps of a batch follow the order of its phases: it starts executing
\* only size-checked and validated, with nothing issued; it is cancelled only
\* on receipt, by the size check before validation, with nothing issued; once
\* executing it goes on executing or reports, with every deletion settled,
\* and is never cancelled.
BatchPhaseOrder ==
  /\ (call = Idle /\ call' # Idle /\ call'.op = "deleteBatch") =>
        /\ BatchCleared(call'.paths)
        /\ call'.validPaths = call'.paths
        /\ fsCalls' = <<>> /\ mutations' = {}
  /\ (call = Idle /\ call' = Idle /\ ret' # ret /\ ret'.op = "deleteBatch") =>
        /\ ~BatchCleared(ret'.arg)
        /\ ret'.value.cancelled
        /\ ret'.value.reason = (IF Len(ret'.arg) > maxBatchSize
                                  THEN "Batch size limit exceeded"
                                  ELSE "Batch contains protected or invalid paths")
        /\ fsCalls' = <<>> /\ mutations' = {}
        /\ UNCHANGED <<fsFiles, fsDirs>>
  /\ BatchExecuting =>
        \/ BatchExecuting' /\ call'.paths = call.paths /\ ret' = ret
        \/ /\ call' = Idle
           /\ ret'.op = "deleteBatch" /\ ret'.arg = call.paths
           /\ "cancelled" \notin DOMAIN ret'.value
           /\ \A i \in 1..Len(call.results) : "success" \in DOMAIN call.results[i]
           /\ Len(ret'.value.deleted) + Len(ret'.value.failed) = Len(call.paths)
           /\ UNCHANGED <<fsFiles, fsDirs, fsCalls, mutations>>

\* No unlink is issued for a batch unless every member has passed validation.
NoUnlinkBeforeValidation ==
  (\E i \in 1..Len(fsCalls) : fsCalls[i].fn = "unlink") =>
     /\ BatchExecuting => BatchCleared(call.paths)
     /\ BatchReturned => BatchCleared(ret.arg)

\* A batch returns in one terminal state: cancelled, with a reason and with
\* nothing deleted or failed, or reported, with nothing rejected.
OneTerminalState ==
  BatchReturned =>
    IF "cancelled" \in DOMAIN ret.value
      THEN /\ ret.value.cancelled /\ "reason" \in DOMAIN ret.value
           /\ ret.value.deleted = <<>> /\ ret.value.failed = <<>>
           /\ Len(ret.value.rejected) > 0 \/ Len(ret.arg) = 0
      ELSE /\ "reason" \notin DOMAIN ret.value
           /\ ret.value.rejected = <<>>

\* C30: a deleteBatch call goes through received, size-checked, validated,
\* then cancelled or executing, then reported, and, provided each filesystem
\* call resolves or fails, eventually returns in exactly one terminal state;
\* no unlink is issued before the validation of every member has completed.
C30_BatchLifecycle ==
  /\ [][BatchPhaseOrder]_vars
  /\ []NoUnlinkBeforeValidation
  /\ []OneTerminalState
  /\ BatchExecuting ~> BatchReturned

\* A batch of two valid files went through execution and was reported: one
\* file deleted, the other failed, nothing rejected.
C30_Witness ==
  /\ BatchReturned
  /\ ret.arg = <<"/tmp/proj/a.txt", "/tmp/proj/b.txt">>
  /\ ret.value.deleted = <<"/tmp/proj/b.txt">>
  /\ PathsOf(ret.value.failed) = <<"/tmp/proj/a.txt">>
  /\ ret.value.rejected = <<>>
  /\ "cancelled" \notin DOMAIN ret.value
  /\ Len(fsCalls) = 4

\* The log call in flight is inside rotateLogFile.
InRotation(w) == w.pc \in {"readdir", "stat", "unlink"}

\* A rotation begins by naming a file that is not on disk and setting the
\* size counter to 0, with nothing written or removed.
RotationBeginsBySwitching ==
  (/\ writers' # <<>> /\ InRotation(writers'[1])
   /\ (writers = <<>> \/ writers[1].pc = "mkdir")) =>
    /\ currentLogFile' # currentLogFile
    /\ currentLogFile' \notin DOMAIN logDirectory'.files
    /\ currentLogFileSize' = 0
    /\ logDirectory'.files = logDirectory.files

\* During a rotation files are only removed, and nothing is appended.
CleanupBeforeAppend ==
  (writers # <<>> /\ InRotation(writers[1])) =>
    /\ writers' # <<>>
    /\ DOMAIN logDirectory'.files \subseteq DOMAIN logDirectory.files
    /\ \A f \in DOMAIN logDirectory'.files : logDirectory'.files[f] = logDirectory.files[f]
    /\ writers'[1].entry = writers[1].entry

\* The append that follows a rotation starts a file with the triggering
\* entry and leaves the size counter at the size of that entry.
AppendOpensNewFile ==
  (writers # <<>> /\ writers[1].pc = "appendFile" /\ writers[1].rotated /\ writers' = <<>>) =>
    /\ writers[1].name \notin DOMAIN logDirectory.files
    /\ logDirectory'.files[writers[1].name].lines = <<writers[1].entry>>
    /\ LineCount(logDirectory', DOMAIN logDirectory'.files)
         = LineCount(logDirectory, DOMAIN logDirectory.files) + 1
    /\ currentLogFileSize' = EntrySize(writers[1].entry)

\* C31: a rotation switches the active file name to a new unique name and
\* resets the size counter to 0, then runs the retention cleanup, and only
\* then appends the triggering entry; after the append the size counter
\* equals that entry's size and the entry is the first line of the new file.
C31_RotationOrder ==
  [][RotationBeginsBySwitching /\ CleanupBeforeAppend /\ AppendOpensNewFile]_vars

\* A rotation whose cleanup removed a file has appended its triggering entry.
C31_Witness ==
  /\ writers = <<>>
  /\ Len(logCalls) = 3
  /\ Cardinality(DOMAIN logDirectory.files) = 2
  /\ currentLogFile \in DOMAIN logDirectory.files
  /\ logDirectory.files[currentLogFile].lines = <<EntryOf(logCalls[3])>>
  /\ currentLogFileSize = 2
  /\ \A f \in DOMAIN logDirectory.files : Len(logDirectory.files[f].lines) = 1

\* The files of the log directory whose name follows the convention of the
\* logger: safe-deletion-....log.
NamedAsLogFile(dir) ==
  {f \in DOMAIN dir.files :
     /\ Len(FileName(f)) >= 18
     /\ SubSeq(FileName(f), 1, 14) = "safe-deletion-"
     /\ SubSeq(FileName(f), Len(FileName(f)) - 3, Len(FileName(f))) = ".log"}

\* The files a step removes from the log directory.
RemovedByStep == DOMAIN logDirectory.files \ DOMAIN logDirectory'.files

\* The cleanup in flight has finished: its log call goes on to appendFile.
CleanupEnds ==
  /\ writers # <<>> /\ InRotation(writers[1])
  /\ writers' # <<>> /\ writers'[1].pc = "appendFile"

\* No step removes a file whose name does not follow the convention.
OtherFilesStay == RemovedByStep \subseteq NamedAsLogFile(logDirectory)

\* A deletion that fails stops neither the deletions that remain nor the
\* log call: the cleanup goes on with the next candidate or ends, and the
\* call goes on to append its entry.
FailedDeletionIsPassedOver ==
  (/\ writers # <<>> /\ writers[1].pc = "unlink"
   /\ writers' # writers /\ logDirectory' = logDirectory) =>
    /\ writers' # <<>>
    /\ writers'[1].entry = writers[1].entry
    /\ IF Len(writers[1].filesToRemove) > 1
         THEN /\ writers'[1].pc = "unlink"
              /\ writers'[1].filesToRemove = Tail(writers[1].filesToRemove)
         ELSE writers'[1].pc = "appendFile"

\* A file is removed only while no older log file is on disk.
OldestGoesFirst ==
  \A f \in RemovedByStep :
    \A g \in NamedAsLogFile(logDirectory') :
      logDirectory.files[g].mtime > logDirectory.files[f].mtime

\* When a cleanup ends, no more than maxLogFiles log files are on disk.
NewestAreAllThatStay ==
  CleanupEnds => Cardinality(NamedAsLogFile(logDirectory')) <= maxLogFiles

\* C32: the retention cleanup keeps exactly the newest maxLogFiles log files
\* by modification time and deletes the older ones, never deleting a file
\* while an older log file survives; files not named as log files are never
\* deleted; a deletion that fails stops neither the remaining deletions nor
\* the log call.
C32_RetentionCleanup ==
  [][/\ OldestGoesFirst
     /\ NewestAreAllThatStay
     /\ OtherFilesStay
     /\ FailedDeletionIsPassedOver]_vars

\* The candidates of a cleanup are the log files on disk except the newest
\* maxLogFiles, each once, oldest first.
CandidatesAreAllButNewest ==
  (writers # <<>> /\ writers[1].pc = "stat"
   /\ writers' # <<>> /\ writers'[1].pc = "unlink") =>
    LET q == writers'[1].filesToRemove
        kept == NamedAsLogFile(logDirectory) \ Range(q)
    IN  /\ Range(q) \subseteq NamedAsLogFile(logDirectory)
        /\ Cardinality(Range(q)) = Len(q)
        /\ Cardinality(kept) = maxLogFiles
        /\ \A k \in kept : \A c \in Range(q) :
             logDirectory.files[c].mtime < logDirectory.files[k].mtime
        /\ \A i \in 1..(Len(q) - 1) :
             logDirectory.files[q[i]].mtime < logDirectory.files[q[i + 1]].mtime

\* Each deletion of a cleanup takes the next candidate and nothing else.
CandidatesGoInTurn ==
  (writers # <<>> /\ writers[1].pc = "unlink") =>
    /\ RemovedByStep \subseteq {writers[1].filesToRemove[1]}
    /\ \A f \in DOMAIN logDirectory'.files : logDirectory'.files[f] = logDirectory.files[f]

\* C32 as the cleanup does it: the candidates for deletion are the log files
\* except the newest maxLogFiles and are deleted oldest first, so that the
\* newest maxLogFiles always stay and exactly these stay when every deletion
\* succeeds; a newer candidate is deleted also after the deletion of an older
\* one failed; files not named as log files are never deleted; a deletion
\* that fails stops neither the remaining deletions nor the log call.
C32_CleanupKeepsNewest ==
  [][/\ CandidatesAreAllButNewest
     /\ CandidatesGoInTurn
     /\ OtherFilesStay
     /\ FailedDeletionIsPassedOver]_vars

\* A cleanup with two candidates ended: the older one could not be deleted
\* and the newer one was, beside the files of other programs.
C32_Witness ==
  /\ writers # <<>> /\ writers[1].pc = "appendFile" /\ writers[1].rotated
  /\ {0 - 102, 0 - 101, 0 - 2} \subseteq DOMAIN logDirectory.files
  /\ 0 - 1 \notin DOMAIN logDirectory.files
  /\ \E f \in DOMAIN logDirectory.files : f >= 0
  /\ 0 - 2 \in NamedAsLogFile(logDirectory)
  /\ 0 - 101 \notin NamedAsLogFile(logDirectory)

\* A call returned that cached the decision on its path.
DecisionCached ==
  /\ ret'.op \in {"isProtected", "validatePath"}
  /\ ret'.arg \notin DOMAIN patternCache
  /\ DOMAIN patternCache' = DOMAIN patternCache \cup {ret'.arg}

\* A step that changes the cache and is not a call caching its decision, as
\* a change notification is, takes entries away; and every step leaves the
\* entries that stay as they were cached.
NotificationOnlyRemoves ==
  /\ (patternCache' # patternCache /\ ~DecisionCached) =>
       /\ DOMAIN patternCache' \subseteq DOMAIN patternCache
       /\ DOMAIN patternCache' # DOMAIN patternCache
  /\ \A k \in DOMAIN patternCache' \cap DOMAIN patternCache :
       patternCache'[k] = patternCache[k]

\* Whatever notifications came between the calls, isProtected answers as it
\* does on an engine that has cached nothing and heard of no change.
AnswersAsUnnotified ==
  ret.op = "isProtected" =>
    /\ ret.value = (~InScope(ret.arg) \/ MatchesProtectedPattern(ret.arg))
    /\ \A k \in DOMAIN patternCache :
         patternCache[k] = (~InScope(k) \/ MatchesProtectedPattern(k))

\* C33: a filesystem change notification only removes entries from the
\* protection-decision cache, never inserting an entry or changing a cached
\* value, and under every interleaving of notifications with isProtected
\* calls isProtected returns what it returns without any notification.
C33_NotificationsOnlyRemove ==
  /\ [][NotificationOnlyRemoves]_vars
  /\ []AnswersAsUnnotified

\* isProtected cached its decision on a path in scope and a notification
\* removed the entry: the watchers are still there and the cache is empty.
C33_Witness ==
  /\ ret.op = "isProtected" /\ ret.arg = subject
  /\ InScope(subject)
  /\ ret.value
  /\ fileWatchers # {}
  /\ DOMAIN patternCache = {}

\* The size of the entries recorded so far, taken together.
RecordedSize ==
  LET Sum[i \in 0..Len(RetainedEntries)] ==
        IF i = 0 THEN 0 ELSE Sum[i - 1] + EntrySize(RetainedEntries[i])
  IN  Sum[Len(RetainedEntries)]

\* C34: entries logged one after another while the size threshold is not
\* crossed are all appended to one and the same file, in call order, also
\* when the first log call arrives while the constructor's initialization of
\* the log directory is in flight: once the calls are over, the directory
\* holds one file and its lines are the entries in call order.
C34_OneActiveFile ==
  (writers = <<>> /\ RetainedEntries # <<>> /\ RecordedSize <= maxLogFileSize) =>
    \E f \in DOMAIN logDirectory.files :
      /\ DOMAIN logDirectory.files = {f}
      /\ logDirectory.files[f].lines = RetainedEntries

\* C35: under every interleaving of log calls issued without awaiting one
\* another, no log file grows beyond the configured maximum file size,
\* except a file whose single entry is itself larger than the maximum.
C35_NoFileBeyondMaximum ==
  \A f \in DOMAIN logDirectory.files :
    \/ StatSize(logDirectory.files, f) <= maxLogFileSize
    \/ Len(logDirectory.files[f].lines) = 1

\* deleteBatch has returned the report of an executed batch.
BatchReported == BatchReturned /\ "cancelled" \notin DOMAIN ret.value

\* C36: for a fully valid batch, under every interleaving of its deletions
\* and also when it repeats a path, the files deleteBatch removed are the
\* paths listed in deleted, each removed file is listed there once, and a
\* further occurrence of its path is listed in failed.
C36_DeletedListsRemovedFiles ==
  BatchReported =>
    /\ {m.path : m \in mutations} = Range(ret.value.deleted)
    /\ {m.node : m \in mutations} = Range(ret.value.deleted)
    /\ \A m \in mutations : m.node \notin fsFiles
    /\ \A p \in Range(ret.arg) :
         /\ Occurrences(ret.value.deleted, p) <= 1
         /\ Occurrences(ret.value.deleted, p) + Occurrences(PathsOf(ret.value.failed), p)
              = Occurrences(ret.arg, p)

\* A batch that names one file twice was reported: the file was removed and
\* is listed once in deleted and once in failed.
C36_Witness ==
  /\ BatchReported
  /\ ret.arg = <<"/tmp/proj/a.txt", "/tmp/proj/a.txt">>
  /\ ret.value.deleted = <<"/tmp/proj/a.txt">>
  /\ PathsOf(ret.value.failed) = <<"/tmp/proj/a.txt">>
  /\ ret.value.failed[1].error = "ENOENT"
  /\ "/tmp/proj/a.txt" \notin fsFiles

\* The members of list are members of input at ascending positions.
FollowsOrderOf(list, input) ==
  \E at \in [1..Len(list) -> 1..Len(input)] :
    /\ \A i \in 1..Len(list) : list[i] = input[at[i]]
    /\ \A i \in 1..(Len(list) - 1) : at[i] < at[i + 1]

\* C37: the deleted and failed lists deleteBatch returns each follow the
\* order of the input paths, whatever the order in which the concurrent
\* deletions complete.
C37_ListsInInputOrder ==
  ret.op = "deleteBatch" =>
    /\ FollowsOrderOf(ret.value.deleted, ret.arg)
    /\ FollowsOrderOf(PathsOf(ret.value.failed), ret.arg)

\* Both files of a batch were deleted, the second before the first, and
\* deleted lists them as the batch did.
C37_Witness ==
  /\ BatchReported
  /\ ret.arg = <<"/tmp/proj/a.txt", "/tmp/proj/b.txt">>
  /\ ret.value.deleted = ret.arg
  /\ \E i, j \in 1..Len(logged) :
       /\ i < j
       /\ logged[i].fn = "logDeletion" /\ logged[i].path = "/tmp/proj/b.txt"
       /\ logged[i].result = "success"
       /\ logged[j].fn = "logDeletion" /\ logged[j].path = "/tmp/proj/a.txt"
       /\ logged[j].result = "success"

\* The path string names a directory of the disk the server started on.
NamesDirectory(p) == \E d \in InitialDirs : p = d \/ p = d \o "/"

ConfigurationKept ==
  /\ allowedDirectories' = allowedDirectories
  /\ protectedPatterns' = protectedPatterns

\* An array the engine returned and no caller has touched is a new array
\* with the configured items in their order.
SnapshotTaken ==
  (ret.op \in ArrayOps /\ ~ret.value.mutated) =>
     /\ ~ret.value.shared
     /\ ret.op = "getProtectedPatterns" => ret.value.items = protectedPatterns
     /\ ret.op = "validateAllowedDirectories" =>
          ret.value.items =
            SelectSeq(allowedDirectories, LAMBDA d : ExistsSync(fsFiles, fsDirs, d))

\* The step a caller takes when it changes a returned array leaves every
\* answer of the engine, the next getProtectedPatterns included, as it was.
MutationKeepsAnswers ==
  (ret.op \in ArrayOps /\ ret'.op = ret.op /\ ret'.value.mutated
     /\ ret'.value.items # ret.value.items) =>
       /\ IsProtected(allowedDirectories', protectedPatterns', patternCache', subject')
            = IsProtected(allowedDirectories, protectedPatterns, patternCache, subject)
       /\ IsWithinAllowedDirectories(allowedDirectories', subject')
            = IsWithinAllowedDirectories(allowedDirectories, subject)
       /\ GetMatchingAllowedDirectory(allowedDirectories', subject')
            = GetMatchingAllowedDirectory(allowedDirectories, subject)
       /\ SpreadCopy(protectedPatterns').items = SpreadCopy(protectedPatterns).items
       /\ ValidDirectories(fsFiles', fsDirs', allowedDirectories').items
            = ValidDirectories(fsFiles, fsDirs, allowedDirectories).items

\* C39: no operation of the protection engine (isProtected,
\* getMatchingAllowedDirectory, isWithinAllowedDirectories,
\* validateAllowedDirectories, getProtectedPatterns, dispose) changes the
\* content or the order of the configured allowed directories or protected
\* patterns, and getProtectedPatterns returns a copy: a caller that changes
\* the returned array changes no later result of the engine.
C39_EngineOnlyReadsConfiguration ==
  /\ [][ConfigurationKept]_vars
  /\ []SnapshotTaken
  /\ [][MutationKeepsAnswers]_vars

\* A caller has pushed onto the array getProtectedPatterns returned, after
\* isProtected cached a decision, and the configured patterns are not the
\* caller's array.
C39_Witness ==
  /\ ret.op = "getProtectedPatterns"
  /\ ret.value.mutated
  /\ Len(ret.value.items) > Len(protectedPatterns)
  /\ ret.value.items # protectedPatterns
  /\ DOMAIN patternCache # {}
  /\ fileWatchers = {}

\* Every key of the cache is a path inside some allowed directory.
CacheHoldsOnlyAllowed ==
  \A k \in DOMAIN patternCache : IsWithinAllowedDirectories(allowedDirectories, k)

\* isProtected has answered for a path outside every allowed directory.
OutOfScopeAnswered ==
  /\ ret.op = "isProtected"
  /\ ~IsWithinAllowedDirectories(allowedDirectories, ret.arg)

\* An isProtected call on an out-of-scope path leaves the cache as it was;
\* one on a path in scope leaves an entry under the very string it was given
\* and adds no other.
CacheKeyedByInput ==
  (ret'.op = "isProtected" /\ (ret.op = "isProtected" => ret'.arg # ret.arg)) =>
     /\ ~IsWithinAllowedDirectories(allowedDirectories, ret'.arg)
          => patternCache' = patternCache
     /\ IsWithinAllowedDirectories(allowedDirectories, ret'.arg)
          => /\ ret'.arg \in DOMAIN patternCache'
             /\ patternCache'[ret'.arg] = ret'.value
             /\ DOMAIN patternCache' = DOMAIN patternCache \cup {ret'.arg}
             /\ \A k \in DOMAIN patternCache : patternCache'[k] = patternCache[k]

\* A path and the same path with a trailing slash, both cached, are two
\* entries holding one value.
SlashFormsAgree ==
  \A p \in DOMAIN patternCache :
     WithSlash(p) \in DOMAIN patternCache =>
       /\ WithSlash(p) # p
       /\ patternCache[WithSlash(p)] = patternCache[p]

\* C40: the decision cache only ever holds keys that are paths inside some
\* allowed directory; isProtected on a path outside every allowed directory
\* returns true and leaves the cache untouched; the cache is keyed by the
\* exact input string, so a path and the same path with a trailing slash are
\* separate entries, and they hold the same value.
C40_CacheKeyedInsideScope ==
  /\ []CacheHoldsOnlyAllowed
  /\ [](OutOfScopeAnswered => ret.value = TRUE)
  /\ [][CacheKeyedByInput]_vars
  /\ []SlashFormsAgree

\* The cache holds a protected path and its trailing-slash form as two
\* entries, and the last call, on a path outside the allowed directories,
\* returned true.
C40_Witness ==
  /\ OutOfScopeAnswered
  /\ ret.arg = "/tmp/project/.git"
  /\ {"/tmp/proj/.git", "/tmp/proj/.git/"} \subseteq DOMAIN patternCache
  /\ patternCache["/tmp/proj/.git"]
  /\ "/tmp/project/.git" \notin DOMAIN patternCache

====
